---- MODULE Spec2Model ----
(***************************************************************************)
(* The client-side workflow store (src/unnamed/part_002, the zustand       *)
(* store `useWorkflowStore`) read as a state machine.  The store is the    *)
(* "Live Projector" of the specification: every incoming event is applied  *)
(* by one store action, set((state) => ...), which is a pure function      *)
(* from the previous state and the event payload to the next state.  Each  *)
(* store action is an operator of the same name over the part of the       *)
(* state it reads and writes, and a TLA+ action that draws the payload     *)
(* from a small set and applies the operator.                              *)
(*                                                                         *)
(* Conventions.  JavaScript `undefined` (a missing key) and `null` are the *)
(* values Undefined and Null.  An object with optional keys is a record    *)
(* whose domain is the set of keys present; `{...a, ...b}` is Spread(a,b). *)
(* A string is the sequence of its characters, so `raw + token` is \o.     *)
(* Wall-clock fields (updatedAt, startedAt, lastTokenAt, endedAt, the      *)
(* timestamp of an error) and the free-form `metadata` of a stream are not *)
(* part of the state: no action reads them to decide anything else.  Of    *)
(* the data fields that an action copies alike (goal_text, rationale,      *)
(* uses, sources of a goal; the progress metrics of a scraping item) the   *)
(* model keeps one beside the status.                                      *)
(***************************************************************************)
EXTENDS Integers, Sequences, FiniteSets, TLC

VARIABLES
    researchAgentStatus,   \* streams, live entities, goal/plan lists
    scrapingStatus,        \* scraping counters and the item list
    phase3Steps,           \* SessionStep[]
    currentStepId,         \* number | null
    stepLoop,              \* the server's execution loop, one record per step
    workflow,              \* the top-level fields of the store
    page                   \* the route and the local state of the pages and hooks

vars == <<researchAgentStatus, scrapingStatus, phase3Steps, currentStepId, stepLoop,
          workflow, page>>

-----------------------------------------------------------------------------
(* JavaScript values and operators                                         *)

Undefined == "undefined"
Null == "null"

\* x ?? y
Coalesce(x, y) == IF x = Undefined \/ x = Null THEN y ELSE x

\* x || y on strings: undefined, null and '' are falsy
OrElse(x, y) == IF x = Undefined \/ x = Null \/ x = "" THEN y ELSE x

\* obj.key, undefined when the key is missing
Get(obj, key) == IF key \in DOMAIN obj THEN obj[key] ELSE Undefined

\* { ...a, ...b }
Spread(a, b) ==
    [k \in DOMAIN a \cup DOMAIN b |-> IF k \in DOMAIN b THEN b[k] ELSE a[k]]

\* { ...map, [key]: value } on a Record<key, value>
Put(map, key, value) ==
    [k \in DOMAIN map \cup {key} |-> IF k = key THEN value ELSE map[k]]

\* array.includes(x)
Includes(seq, x) == \E i \in 1..Len(seq) : seq[i] = x

\* array.filter((e) => e !== x)
Without(seq, x) == SelectSeq(seq, LAMBDA e : e # x)

\* the objects with some of the keys of `keys`, key k drawn from vals[k]
RECURSIVE Partial(_, _)
Partial(keys, vals) ==
    IF keys = {} THEN { <<>> }
    ELSE LET k == CHOOSE x \in keys : TRUE
             rest == Partial(keys \ {k}, vals)
         IN  rest \cup { Put(r, k, v) : r \in rest, v \in vals[k] }

\* the object without one key (delete obj.key)
Delete(obj, key) == [k \in DOMAIN obj \ {key} |-> obj[k]]

\* the arrays over `elems` of length at most n
RECURSIVE ArraysUpTo(_, _)
ArraysUpTo(elems, n) ==
    IF n = 0 THEN { <<>> }
    ELSE LET shorter == ArraysUpTo(elems, n - 1)
         IN  shorter \cup { Append(s, e) : s \in { t \in shorter : Len(t) = n - 1 },
                                           e \in elems }

-----------------------------------------------------------------------------
(* Stream buffers: startStream .. clearStreamBuffer                        *)

StreamIds == {"s1", "s2"}
Tokens == { <<"a">>, <<"b">> }
\* the options argument of startStream, with or without a phase
StartOptions == Partial({"phase"}, [phase |-> {"phase3"}])
StreamStatuses == {"active", "completed", "error"}
StreamErrors == {"boom"}
\* completeStream's metadata argument, with or without a status
CompleteMetadata == Partial({"status"}, [status |-> StreamStatuses])

\* tokens appended to one buffer before the exploration stops feeding it
MaxTokens == 1

IdleStreamingState == [isStreaming |-> FALSE, phase |-> Null]

InitStreams ==
    [activeStreamId |-> Null,
     buffers |-> <<>>,
     order |-> <<>>,
     pinned |-> <<>>]

startStream(ras, streamId, options) ==
    LET buffer == [id |-> streamId,
                   raw |-> <<>>,
                   status |-> "active",
                   tokenCount |-> 0,
                   isStreaming |-> TRUE,
                   phase |-> Coalesce(Get(options, "phase"), Null),
                   error |-> Undefined]
        order == <<streamId>> \o Without(ras.streams.order, streamId)
    IN  [ras EXCEPT
            !.streams = [@ EXCEPT !.activeStreamId = streamId,
                                  !.buffers = Put(@, streamId, buffer),
                                  !.order = order],
            !.streamBuffer = <<>>,
            !.streamingState =
                [isStreaming |-> TRUE,
                 phase |-> Coalesce(Get(options, "phase"), Null)]]

appendStreamToken(ras, streamId, token) ==
    LET buffers == ras.streams.buffers
        buffer == IF streamId \in DOMAIN buffers
                  THEN buffers[streamId]
                  ELSE [id |-> streamId,
                        raw |-> <<>>,
                        status |-> "active",
                        tokenCount |-> 0,
                        isStreaming |-> TRUE,
                        phase |-> Null,
                        error |-> Undefined]
        updatedBuffer == [buffer EXCEPT !.raw = @ \o token,
                                        !.tokenCount = @ + 1,
                                        !.isStreaming = TRUE,
                                        !.status = "active"]
        isActive == ras.streams.activeStreamId = streamId
    IN  [ras EXCEPT
            !.streams = [@ EXCEPT !.buffers = Put(@, streamId, updatedBuffer)],
            !.streamBuffer = IF isActive THEN updatedBuffer.raw ELSE @,
            !.streamingState =
                IF isActive
                THEN [isStreaming |-> TRUE,
                      phase |-> Coalesce(updatedBuffer.phase, Coalesce(@.phase, Null))]
                ELSE @]

\* completeStream recording a finished buffer for an id it has not seen
completeStreamRemembering(ras, streamId, metadata) ==
    LET buffers == ras.streams.buffers
        buffer == IF streamId \in DOMAIN buffers
                  THEN buffers[streamId]
                  ELSE [id |-> streamId,
                        raw |-> <<>>,
                        status |-> "active",
                        tokenCount |-> 0,
                        isStreaming |-> TRUE,
                        phase |-> Null,
                        error |-> Undefined]
        done == [buffer EXCEPT
                   !.status = Coalesce(Get(metadata, "status"), "completed"),
                   !.isStreaming = FALSE]
        isActive == ras.streams.activeStreamId = streamId
    IN  [ras EXCEPT
           !.streams = [@ EXCEPT !.buffers = Put(@, streamId, done)],
           !.streamingState =
               IF isActive
               THEN [isStreaming |-> FALSE,
                     phase |-> Coalesce(done.phase, Coalesce(@.phase, Null))]
               ELSE @]

completeStream(ras, streamId, metadata) ==
    LET buffers == ras.streams.buffers
    IN  IF streamId \notin DOMAIN buffers
        THEN ras
        ELSE LET buffer == buffers[streamId]
                 done == [buffer EXCEPT
                            !.status = Coalesce(Get(metadata, "status"), "completed"),
                            !.isStreaming = FALSE]
                 isActive == ras.streams.activeStreamId = streamId
             IN  [ras EXCEPT
                    !.streams = [@ EXCEPT !.buffers = Put(@, streamId, done)],
                    !.streamingState =
                        IF isActive
                        THEN [isStreaming |-> FALSE,
                              phase |-> Coalesce(done.phase, Coalesce(@.phase, Null))]
                        ELSE @]

\* setStreamError failing every buffer along with the one named
setStreamErrorCascade(ras, streamId, error) ==
    LET buffers == ras.streams.buffers
    IN  IF streamId \notin DOMAIN buffers
        THEN ras
        ELSE [ras EXCEPT
                !.streams = [@ EXCEPT !.buffers =
                    [id \in DOMAIN buffers |->
                       [buffers[id] EXCEPT !.status = "error",
                                           !.error = error,
                                           !.isStreaming = FALSE]]],
                !.streamingState =
                    IF ras.streams.activeStreamId = streamId
                    THEN [isStreaming |-> FALSE,
                          phase |-> Coalesce(buffers[streamId].phase, Null)]
                    ELSE @]

setStreamError(ras, streamId, error) ==
    LET buffers == ras.streams.buffers
    IN  IF streamId \notin DOMAIN buffers
        THEN ras
        ELSE LET buffer == buffers[streamId]
                 failed == [buffer EXCEPT !.status = "error",
                                          !.error = error,
                                          !.isStreaming = FALSE]
                 isActive == ras.streams.activeStreamId = streamId
             IN  [ras EXCEPT
                    !.streams = [@ EXCEPT !.buffers = Put(@, streamId, failed)],
                    !.streamingState =
                        IF isActive
                        THEN [isStreaming |-> FALSE,
                              phase |-> Coalesce(buffer.phase, Null)]
                        ELSE @]

\* setActiveStream moving the selected stream to the front of the order, as
\* startStream does
setActiveStreamReorder(ras, streamId) ==
    [ras EXCEPT
       !.streams = [@ EXCEPT !.activeStreamId = streamId,
                             !.order = <<streamId>> \o Without(@, streamId)]]

setActiveStream(ras, streamId) ==
    IF streamId = ras.streams.activeStreamId
    THEN ras
    ELSE LET buffers == ras.streams.buffers
             found == streamId # Null /\ streamId \in DOMAIN buffers
         IN  [ras EXCEPT
                !.streams = [@ EXCEPT !.activeStreamId = streamId],
                !.streamBuffer = IF found THEN buffers[streamId].raw ELSE <<>>,
                !.streamingState =
                    IF found
                    THEN [isStreaming |-> buffers[streamId].isStreaming,
                          phase |-> Coalesce(buffers[streamId].phase, Null)]
                    ELSE IdleStreamingState]

pinStream(ras, streamId) ==
    [ras EXCEPT !.streams =
        [@ EXCEPT !.pinned = IF Includes(@, streamId) THEN @ ELSE Append(@, streamId)]]

unpinStream(ras, streamId) ==
    [ras EXCEPT !.streams = [@ EXCEPT !.pinned = Without(@, streamId)]]

\* clearStreamBuffer emptying the named buffer without touching the legacy
\* streamBuffer text
clearStreamBufferKeepLegacy(ras, streamId) ==
    IF streamId # Undefined
    THEN LET buffers == ras.streams.buffers
             cleared == IF streamId \in DOMAIN buffers
                        THEN Put(buffers, streamId,
                                 [buffers[streamId] EXCEPT !.raw = <<>>,
                                                           !.tokenCount = 0])
                        ELSE buffers
         IN  [ras EXCEPT !.streams = [@ EXCEPT !.buffers = cleared]]
    ELSE [ras EXCEPT
            !.streams = InitStreams,
            !.streamBuffer = <<>>,
            !.streamingState = IdleStreamingState]

\* streamId is Undefined when the argument is left out
clearStreamBuffer(ras, streamId) ==
    IF streamId # Undefined
    THEN LET buffers == ras.streams.buffers
             cleared == IF streamId \in DOMAIN buffers
                        THEN Put(buffers, streamId,
                                 [buffers[streamId] EXCEPT !.raw = <<>>,
                                                           !.tokenCount = 0])
                        ELSE buffers
             isActive == ras.streams.activeStreamId = streamId
         IN  [ras EXCEPT
                !.streams = [@ EXCEPT !.buffers = cleared],
                !.streamBuffer = IF isActive THEN <<>> ELSE @]
    ELSE [ras EXCEPT
            !.streams = InitStreams,
            !.streamBuffer = <<>>,
            !.streamingState = IdleStreamingState]

-----------------------------------------------------------------------------
(* Live entities: goals, plan steps, insights, actions, report sections    *)

EntityStatuses == {"pending", "streaming", "ready", "error"}

GoalIds == {1, 2}
PlanStepIds == {1, 2}
ItemIds == {"i1"}            \* ids of insights, actions and report sections

GoalTexts == {"X", "Y"}
PlanGoals == {"G", "H"}
\* a nullable array is a record: goals === null is goals.isNull
NullArray == [isNull |-> TRUE, items |-> <<>>]
ArrayOf(items) == [isNull |-> FALSE, items |-> items]

\* longest goal list / plan handed to setGoals / setPlan
MaxList == 2

\* goal.update payloads: Partial<LiveGoal> & { id }
GoalUpdates ==
    { Spread([id |-> i], p) :
        i \in GoalIds,
        p \in Partial({"goal_text", "status"},
                      [goal_text |-> GoalTexts, status |-> EntityStatuses]) }

\* plan_step.update payloads: Partial<LivePlanStep> & { step_id }
PlanStepUpdates ==
    { Spread([step_id |-> i], p) :
        i \in PlanStepIds,
        p \in Partial({"goal", "status"},
                      [goal |-> PlanGoals, status |-> EntityStatuses]) }

InsightUpdates ==
    { Spread([id |-> i], p) :
        i \in ItemIds,
        p \in Partial({"title", "status"},
                      [title |-> {"T"}, status |-> EntityStatuses]) }

ActionUpdates ==
    { Spread([id |-> i], p) :
        i \in ItemIds,
        p \in Partial({"description", "status"},
                      [description |-> {"D"}, status |-> EntityStatuses]) }

ReportSectionUpdates ==
    { Spread([id |-> i], p) :
        i \in ItemIds,
        p \in Partial({"content", "status"},
                      [content |-> {"C"}, status |-> EntityStatuses]) }

\* the lists handed to setGoals and setPlan
GoalLists ==
    { NullArray } \cup
    { ArrayOf(l) :
        l \in ArraysUpTo({ [id |-> i, goal_text |-> t] : i \in GoalIds, t \in {"X"} },
                         MaxList) }
PlanLists ==
    { NullArray } \cup
    { ArrayOf(l) :
        l \in ArraysUpTo({ [step_id |-> i, goal |-> "G"] : i \in PlanStepIds }, MaxList) }

\* previous?.field
Prev(map, id, field) == IF id \in DOMAIN map THEN map[id][field] ELSE Undefined

\* updateLiveGoal with the status of an update that omits it reset to the default
updateLiveGoalResetStatus(ras, goal) ==
    LET id == goal.id
        merged == Spread([id |-> id,
                          goal_text |-> Prev(ras.liveGoals, id, "goal_text"),
                          status |-> OrElse(Get(goal, "status"), "streaming")],
                         goal)
    IN  [ras EXCEPT !.liveGoals = Put(@, id, merged),
                    !.goalOrder = IF Includes(@, id) THEN @ ELSE Append(@, id)]

updateLiveGoal(ras, goal) ==
    LET id == goal.id
        previous == ras.liveGoals
        merged == Spread([id |-> id,
                          goal_text |-> Prev(previous, id, "goal_text"),
                          status |-> OrElse(Get(goal, "status"),
                                            OrElse(Prev(previous, id, "status"),
                                                   "streaming"))],
                         goal)
        existingGoals == ras.goals.items        \* state.goals || []
        goals == IF Len(existingGoals) > 0
                 THEN ArrayOf([i \in 1..Len(existingGoals) |->
                                 IF existingGoals[i].id = id
                                 THEN Spread(existingGoals[i], goal)
                                 ELSE existingGoals[i]])
                 ELSE NullArray
        goalOrder == IF Includes(ras.goalOrder, id)
                     THEN ras.goalOrder
                     ELSE Append(ras.goalOrder, id)
    IN  [ras EXCEPT !.liveGoals = Put(@, id, merged),
                    !.goals = goals,
                    !.goalOrder = goalOrder]

updateLivePlanStep(ras, step) ==
    LET id == step.step_id
        previous == ras.livePlanSteps
        merged == Spread([step_id |-> id,
                          goal |-> Prev(previous, id, "goal"),
                          status |-> OrElse(Get(step, "status"),
                                            OrElse(Prev(previous, id, "status"),
                                                   "streaming"))],
                         step)
        existingPlan == ras.plan.items          \* state.plan || []
        plan == IF Len(existingPlan) > 0
                THEN ArrayOf([i \in 1..Len(existingPlan) |->
                                IF existingPlan[i].step_id = id
                                THEN Spread(existingPlan[i], step)
                                ELSE existingPlan[i]])
                ELSE NullArray
        planOrder == IF Includes(ras.planOrder, id)
                     THEN ras.planOrder
                     ELSE Append(ras.planOrder, id)
    IN  [ras EXCEPT !.livePlanSteps = Put(@, id, merged),
                    !.plan = plan,
                    !.planOrder = planOrder]

updateLiveInsight(ras, insight) ==
    LET id == insight.id
        previous == ras.liveInsights
        merged == Spread([id |-> id,
                          title |-> Prev(previous, id, "title"),
                          status |-> OrElse(Get(insight, "status"),
                                            OrElse(Prev(previous, id, "status"),
                                                   "streaming"))],
                         insight)
    IN  [ras EXCEPT !.liveInsights = Put(@, id, merged)]

updateLiveAction(ras, action) ==
    LET id == action.id
        previous == ras.liveActions
        merged == Spread([id |-> id,
                          description |-> Prev(previous, id, "description"),
                          status |-> OrElse(Get(action, "status"),
                                            OrElse(Prev(previous, id, "status"),
                                                   "streaming"))],
                         action)
    IN  [ras EXCEPT !.liveActions = Put(@, id, merged)]

updateLiveReportSection(ras, section) ==
    LET id == section.id
        previous == ras.liveReportSections
        merged == Spread([id |-> id,
                          content |-> Prev(previous, id, "content"),
                          status |-> OrElse(Get(section, "status"),
                                            OrElse(Prev(previous, id, "status"),
                                                   "streaming"))],
                         section)
    IN  [ras EXCEPT !.liveReportSections = Put(@, id, merged)]

\* goals.forEach of setGoals: the live goals after the first n list entries
RECURSIVE setGoalsLive(_, _, _)
setGoalsLive(liveGoals, goals, n) ==
    IF n = 0 THEN liveGoals
    ELSE LET before == setGoalsLive(liveGoals, goals, n - 1)
             goal == goals[n]
             id == goal.id
         IN  Put(before, id,
                 [id |-> id,
                  goal_text |-> goal.goal_text,
                  status |-> "ready"])

setGoals(ras, goals) ==
    LET list == goals.items
        goalOrder == [i \in 1..Len(list) |-> list[i].id]
    IN  [ras EXCEPT !.goals = goals,
                    !.liveGoals = setGoalsLive(@, list, Len(list)),
                    !.goalOrder = IF Len(goalOrder) > 0 THEN goalOrder ELSE @]

\* plan.forEach of setPlan
RECURSIVE setPlanLive(_, _, _)
setPlanLive(livePlanSteps, plan, n) ==
    IF n = 0 THEN livePlanSteps
    ELSE LET before == setPlanLive(livePlanSteps, plan, n - 1)
             step == plan[n]
             id == step.step_id
         IN  Put(before, id,
                 [step_id |-> id,
                  goal |-> step.goal,
                  status |-> "ready"])

setPlan(ras, plan) ==
    LET list == plan.items
        planOrder == [i \in 1..Len(list) |-> list[i].step_id]
    IN  [ras EXCEPT !.plan = plan,
                    !.livePlanSteps = setPlanLive(@, list, Len(list)),
                    !.planOrder = IF Len(planOrder) > 0 THEN planOrder ELSE @]

-----------------------------------------------------------------------------
(* The step execution loop of the server. Its code is not part of the       *)
(* sources at hand; the loop is taken from section 4.2 of the               *)
(* specification, the shape of a response from the phase 3 prompts, and the *)
(* reading of a response from the client.                                   *)

\* steps in flight at once
LoopSteps == {1, 2}
\* the maximum iteration count of a step
MaxIterations == 3
RequestTypes == {"full_content_item", "semantic"}
LoopFindings == {"A", "B"}

InitStepLoop ==
    [s \in LoopSteps |->
        [state |-> "gathering",
         iteration |-> 0,
         context |-> 0,
         response |-> [requests |-> {}, findings |-> Null],
         completion_reason |-> Null]]

\* iteration (a) with the findings written beside the requests
emitRequestsWithFindings(loop, requests) ==
    [loop EXCEPT !.iteration = @ + 1,
                 !.context = @ + 1,
                 !.response = [requests |-> requests, findings |-> "A"]]

\* iteration (a): a non-empty requests[] and no findings; the retrieved
\* content is added to the context
emitRequests(loop, requests) ==
    [loop EXCEPT !.iteration = @ + 1,
                 !.context = @ + 1,
                 !.response = [requests |-> requests, findings |-> Null]]

\* iteration (b): populated findings and an empty requests[]
emitFindings(loop, findings) ==
    [loop EXCEPT !.state = "finalizing",
                 !.iteration = @ + 1,
                 !.response = [requests |-> {}, findings |-> findings],
                 !.completion_reason = "sufficient"]

\* the bound compared one iteration late
exhaustedOneLate(loop) == loop.iteration > MaxIterations

\* the iteration bound is used up
exhausted(loop) == loop.iteration >= MaxIterations

\* on exhaustion: finalize with the findings there are
forceFinalize(loop, findings) ==
    [loop EXCEPT !.state = "finalizing",
                 !.response = [requests |-> {}, findings |-> findings],
                 !.completion_reason = "max_iterations"]

\* determineResponseTypeFromContent on the parsed response
determineResponseTypeFromContent(parsed) ==
    LET hasRequests == parsed.requests # {}
        hasFindings == parsed.findings # Null
    IN  IF hasRequests /\ ~hasFindings THEN "request"
        ELSE IF hasFindings THEN "final"
        ELSE Null

-----------------------------------------------------------------------------
(* Conversation messages. A message is its id and the number its timestamp  *)
(* parses to, new Date(timestamp).getTime(); timestamps are parseable.      *)

\* merged.length > 200 ? merged.slice(merged.length - 200) : merged
ConversationLimit == 200

\* how far past the limit the arriving messages run
MaxOverflow == 2

\* ids and timestamps of the messages that arrive in order, one per tick
OrderedIds == 1..(ConversationLimit + MaxOverflow)
\* a message that arrives out of order: older than all, tied with message 2,
\* or newer than all
LateIds == {0}
LateTimestamps == {0, 2, 1000}

\* array.sort((a, b) => aTime - bTime): stable, ascending. A stable sort
\* leaves an ascending array as it is, so the recursion stops at one.
AscendingTimestamps(messages) ==
    \A i \in 1..Len(messages) - 1 : messages[i].timestamp <= messages[i + 1].timestamp

RECURSIVE SortByTimestamp(_)
SortByTimestamp(messages) ==
    IF AscendingTimestamps(messages) THEN messages
    ELSE LET sorted == SortByTimestamp(SubSeq(messages, 1, Len(messages) - 1))
             last == messages[Len(messages)]
             k == Cardinality({ i \in 1..Len(sorted) :
                                  sorted[i].timestamp <= last.timestamp })
         IN  SubSeq(sorted, 1, k) \o <<last>> \o SubSeq(sorted, k + 1, Len(sorted))

\* upsertConversationMessage keeping the first 200 of the sorted list
upsertConversationMessageKeepFirst(ras, message) ==
    LET existing == SelectSeq(ras.conversationMessages, LAMBDA item : item.id # message.id)
        merged == SortByTimestamp(Append(existing, message))
        limited == IF Len(merged) > ConversationLimit
                   THEN SubSeq(merged, 1, ConversationLimit)
                   ELSE merged
    IN  [ras EXCEPT !.conversationMessages = limited]

upsertConversationMessage(ras, message) ==
    LET existing == SelectSeq(ras.conversationMessages, LAMBDA item : item.id # message.id)
        merged == SortByTimestamp(Append(existing, message))
        limited == IF Len(merged) > ConversationLimit
                   THEN SubSeq(merged, Len(merged) - ConversationLimit + 1, Len(merged))
                   ELSE merged
    IN  [ras EXCEPT !.conversationMessages = limited]

\* the messages that may arrive next: the next in-order message, or the late
\* message with any of its timestamps (again, when it is already there)
ConversationInputs ==
    LET messages == researchAgentStatus.conversationMessages
        seen == { messages[i].id : i \in 1..Len(messages) } \cap OrderedIds
        next == IF seen = {} THEN 1
                ELSE (CHOOSE m \in seen : \A o \in seen : o <= m) + 1
    IN  { [id |-> i, timestamp |-> i] : i \in {next} \cap OrderedIds }
        \cup { [id |-> i, timestamp |-> t] : i \in LateIds, t \in LateTimestamps }

-----------------------------------------------------------------------------
(* Phase 3 steps: addPhase3Step, setPhase3Steps                            *)

\* a number | null field holds NullNumber for null
NullNumber == -1

\* step ids run from 1 to this
MaxPhase3Step == 3
Phase3StepIds == 1..MaxPhase3Step
Findings == {"A", "B", "C"}
SessionSteps == { [step_id |-> i, findings |-> f] : i \in Phase3StepIds, f \in Findings }

\* longest step list of a persisted snapshot
MaxHydratedSteps == 2

\* array.sort((a, b) => a.step_id - b.step_id): stable, ascending
RECURSIVE SortByStepId(_)
SortByStepId(steps) ==
    IF Len(steps) <= 1 THEN steps
    ELSE LET sorted == SortByStepId(SubSeq(steps, 1, Len(steps) - 1))
             last == steps[Len(steps)]
             k == Cardinality({ i \in 1..Len(sorted) : sorted[i].step_id <= last.step_id })
         IN  SubSeq(sorted, 1, k) \o <<last>> \o SubSeq(sorted, k + 1, Len(sorted))

\* stepsMap.set(step.step_id, step) on the entries of a Map in insertion order:
\* a key already there keeps its place and takes the new value
MapSet(entries, step) ==
    IF \E i \in 1..Len(entries) : entries[i].step_id = step.step_id
    THEN [i \in 1..Len(entries) |->
            IF entries[i].step_id = step.step_id THEN step ELSE entries[i]]
    ELSE Append(entries, step)

\* the Map after the forEach over the first n existing steps, skipping `skip`
RECURSIVE MapOfOthers(_, _, _)
MapOfOthers(steps, skip, n) ==
    IF n = 0 THEN <<>>
    ELSE LET before == MapOfOthers(steps, skip, n - 1)
         IN  IF steps[n].step_id # skip THEN MapSet(before, steps[n]) ELSE before

\* addPhase3Step without the final sort
addPhase3StepUnsorted(steps, step) ==
    IF \E i \in 1..Len(steps) : steps[i].step_id = step.step_id
    THEN MapSet(MapOfOthers(steps, step.step_id, Len(steps)), step)
    ELSE Append(steps, step)

\* the phase3Steps that addPhase3Step stores
addPhase3Step(steps, step) ==
    LET stepIds == { steps[i].step_id : i \in 1..Len(steps) }
        updatedSteps ==
            IF step.step_id \in stepIds
            THEN MapSet(MapOfOthers(steps, step.step_id, Len(steps)), step)
            ELSE Append(steps, step)
    IN  SortByStepId(updatedSteps)

\* the phase3Steps that setPhase3Steps stores
setPhase3Steps(steps) == SortByStepId(steps)

\* the currentStepId that setPhase3Steps stores
setPhase3StepsCurrent(steps, nextStepId) ==
    LET sorted == SortByStepId(steps)
        lastCompleted == IF Len(sorted) > 0 THEN sorted[Len(sorted)].step_id
                         ELSE NullNumber
    IN  IF nextStepId # NullNumber THEN nextStepId ELSE lastCompleted

-----------------------------------------------------------------------------
(* Scraping status: updateScrapingStatus .. updateScrapingItemProgress     *)

ScrapingItemStatuses == {"pending", "in-progress", "completed", "failed"}
LinkIds == {Undefined, "l1"}
Urls == {"u1", "u2"}
\* most items the exploration lets the item list hold
MaxItems == 2

InitScrapingStatus ==
    [total |-> 0,
     expectedTotal |-> 0,
     completed |-> 0,
     failed |-> 0,
     inProgress |-> 0,
     items |-> <<>>,
     completionRate |-> 0,       \* in hundredths: 1.0 is 100
     is100Percent |-> FALSE,
     canProceedToResearch |-> FALSE]

\* items.filter((i) => statuses.includes(i.status)).length
CountStatus(items, statuses) ==
    Cardinality({ i \in 1..Len(items) : items[i].status \in statuses })

\* Partial<scrapingStatus> payloads of updateScrapingStatus
ScrapingStatusUpdates ==
    Partial({"expectedTotal", "completed"},
            [expectedTotal |-> {NullNumber, 0, 1, 2},
             completed |-> {1}])

\* Partial<ScrapingItem> payloads of updateScrapingItemProgress
ItemProgress ==
    Partial({"status"}, [status |-> ScrapingItemStatuses])

\* updateScrapingStatus merging the payload as it comes
updateScrapingStatusUnguarded(ss, status) == Spread(ss, status)

updateScrapingStatus(ss, status) ==
    LET updatedStatus ==
            IF "expectedTotal" \in DOMAIN status
               /\ (status.expectedTotal = 0 \/ status.expectedTotal = NullNumber)
            THEN Delete(status, "expectedTotal")
            ELSE status
    IN  Spread(ss, updatedStatus)

updateScrapingItem(ss, url, status, error) ==
    LET items == [i \in 1..Len(ss.items) |->
                    IF ss.items[i].url = url
                    THEN [ss.items[i] EXCEPT !.status = status, !.error = error]
                    ELSE ss.items[i]]
    IN  [ss EXCEPT !.items = items,
                   !.completed = CountStatus(items, {"completed"}),
                   !.failed = CountStatus(items, {"failed"}),
                   !.inProgress = CountStatus(items, {"in-progress"})]

updateScrapingItemProgress(ss, link_id, url, progress) ==
    LET Matches(item) == IF link_id # Undefined THEN item.link_id = link_id
                         ELSE item.url = url
        merged == [i \in 1..Len(ss.items) |->
                     IF Matches(ss.items[i])
                     THEN [Spread(ss.items[i], progress) EXCEPT
                             !.status = OrElse(Get(progress, "status"),
                                               OrElse(ss.items[i].status, "in-progress"))]
                     ELSE ss.items[i]]
        exists == \E i \in 1..Len(merged) : Matches(merged[i])
        added == [link_id |-> link_id,
                  url |-> url,
                  status |-> OrElse(Get(progress, "status"), "in-progress"),
                  error |-> Undefined]
        items == IF exists THEN merged ELSE Append(merged, added)
    IN  [ss EXCEPT !.items = items,
                   !.completed = CountStatus(items, {"completed"}),
                   !.failed = CountStatus(items, {"failed"}),
                   !.inProgress = CountStatus(items, {"in-progress", "pending"})]

\* overallProgress of the scraping page, in hundredths of the whole
overallProgress(ss) ==
    IF ss.expectedTotal > 0
    THEN IF ss.completionRate > 0 THEN ss.completionRate
         ELSE ((ss.completed + ss.failed) * 100) \div ss.expectedTotal
    ELSE IF ss.total > 0 THEN ((ss.completed + ss.failed) * 100) \div ss.total
    ELSE 0

\* the links of a batch of three
BatchLinks == {"l1", "l2", "l3"}

-----------------------------------------------------------------------------
(* The store: initialState and one action per store action                 *)

InitResearchAgentStatus ==
    [streams |-> InitStreams,
     streamBuffer |-> <<>>,
     streamingState |-> IdleStreamingState,
     liveGoals |-> <<>>,
     goalOrder |-> <<>>,
     goals |-> NullArray,
     livePlanSteps |-> <<>>,
     planOrder |-> <<>>,
     plan |-> NullArray,
     liveInsights |-> <<>>,
     liveActions |-> <<>>,
     liveReportSections |-> <<>>,
     conversationMessages |-> <<>>,
     phase |-> "0.5"]

\* null, or undefined, where the value is otherwise an object
NullObject == [isNull |-> TRUE]

Phases == <<"input", "scraping", "research", "phase3", "phase4", "complete">>
BatchIds == {"b1", "b2"}
SessionIds == {"s1"}
ReadyReport == [isNull |-> FALSE, content |-> "R", status |-> "ready"]
CancellationInfos == { [isNull |-> FALSE, reason |-> "user", state_at_cancellation |-> n] :
                         n \in {0} }

InitWorkflow ==
    [currentPhase |-> "input",
     batchId |-> Null,
     workflowStarted |-> FALSE,
     sessionId |-> Null,
     reportStale |-> FALSE,
     rerunState |-> [inProgress |-> FALSE, phase |-> Null, phases |-> <<>>],
     stepRerunState |-> [inProgress |-> FALSE, stepId |-> NullNumber,
                         regenerateReport |-> TRUE],
     finalReport |-> NullObject,
     errors |-> <<>>,
     cancelled |-> FALSE,
     cancellationInfo |-> NullObject]

\* the store as one value
Store ==
    [researchAgentStatus |-> researchAgentStatus,
     scrapingStatus |-> scrapingStatus,
     phase3Steps |-> phase3Steps,
     currentStepId |-> currentStepId,
     workflow |-> workflow]

initialState ==
    [researchAgentStatus |-> InitResearchAgentStatus,
     scrapingStatus |-> InitScrapingStatus,
     phase3Steps |-> <<>>,
     currentStepId |-> NullNumber,
     workflow |-> InitWorkflow]

\* set(...) of a whole store value
SetStore(store) ==
    /\ researchAgentStatus' = store.researchAgentStatus
    /\ scrapingStatus' = store.scrapingStatus
    /\ phase3Steps' = store.phase3Steps
    /\ currentStepId' = store.currentStepId
    /\ workflow' = store.workflow

setBatchId(store, batchId) ==
    IF store.workflow.batchId = batchId THEN store
    ELSE [initialState EXCEPT !.workflow.batchId = batchId]

reset(store) == [initialState EXCEPT !.workflow.workflowStarted = FALSE]

setWorkflowStarted(store, started) == [store EXCEPT !.workflow.workflowStarted = started]
setCurrentPhase(store, phase) == [store EXCEPT !.workflow.currentPhase = phase]
setSessionId(store, sessionId) == [store EXCEPT !.workflow.sessionId = sessionId]
setFinalReport(store, report) == [store EXCEPT !.workflow.finalReport = report]

\* cancellationInfo || null
setCancelled(store, cancelled, cancellationInfo) ==
    [store EXCEPT !.workflow.cancelled = cancelled,
                  !.workflow.cancellationInfo = cancellationInfo]

\* setReportStale dropping the report it marks
setReportStaleDropReport(store, stale) ==
    [store EXCEPT !.workflow.reportStale = stale,
                  !.workflow.finalReport = NullObject]

setReportStale(store, stale) == [store EXCEPT !.workflow.reportStale = stale]

\* phases: payload.phases ?? state.rerunState.phases
setPhaseRerunState(store, payload) ==
    LET rerunState == store.workflow.rerunState
        phases == IF "phases" \in DOMAIN payload THEN payload.phases
                  ELSE rerunState.phases
    IN  [store EXCEPT !.workflow.rerunState =
            [Spread(rerunState, payload) EXCEPT !.phases = phases]]

setStepRerunState(store, payload) ==
    [store EXCEPT !.workflow.stepRerunState = Spread(@, payload)]

\* errors recorded before the exploration stops adding to them
MaxErrors == 1

addError(store, phase, message) ==
    [store EXCEPT !.workflow.errors =
        Append(@, [phase |-> phase, message |-> message])]

\* hasExistingSession of the link page
hasActiveSession(store) ==
    /\ store.workflow.batchId # Null
    /\ \/ store.scrapingStatus.total > 0
       \/ ~store.researchAgentStatus.goals.isNull
       \/ Len(store.phase3Steps) > 0
       \/ ~store.workflow.finalReport.isNull

\* LinkInputPage.handleSubmit once formatLinks has answered: sessionId is the
\* value the page rendered with
handleSubmitLinks(store, response) ==
    LET sessionId == store.workflow.sessionId
        cleared == IF hasActiveSession(store) THEN reset(store) ELSE store
        withSession == IF response.session_id # Null /\ sessionId = Null
                       THEN setSessionId(cleared, response.session_id)
                       ELSE cleared
    IN  setCurrentPhase(setBatchId(withSession, response.batch_id), "scraping")

\* what getHistorySession answers in checkAndStartWorkflow
ResearchResults ==
    { NullObject } \cup
    { [isNull |-> FALSE, goals |-> g, plan |-> NullArray, phase3_steps |-> p] :
        g \in {NullArray, ArrayOf(<<[id |-> 1, goal_text |-> "X"]>>)},
        p \in {NullArray, ArrayOf(<<[step_id |-> 1, findings |-> "A"]>>)} }

\* checkAndStartWorkflow, from a ready report to the request for the session
reportReady(store) ==
    LET started == setWorkflowStarted(store, TRUE)
        scraped == [started EXCEPT !.scrapingStatus =
                      updateScrapingStatus(@, [is100Percent |-> TRUE,
                                               canProceedToResearch |-> TRUE])]
    IN  setFinalReport(scraped, ReadyReport)

\* checkAndStartWorkflow, from the session data on
sessionLoaded(store, results) ==
    IF results.isNull THEN store
    ELSE LET withGoals == IF results.goals.isNull THEN store
                          ELSE [store EXCEPT !.researchAgentStatus =
                                  setGoals(@, results.goals)]
             withPlan == IF results.plan.isNull THEN withGoals
                         ELSE [withGoals EXCEPT !.researchAgentStatus =
                                 setPlan(@, results.plan)]
             withSteps == IF results.phase3_steps.isNull THEN withPlan
                          ELSE [withPlan EXCEPT
                                  !.phase3Steps = setPhase3Steps(results.phase3_steps.items),
                                  !.currentStepId =
                                     setPhase3StepsCurrent(results.phase3_steps.items,
                                                           NullNumber)]
         IN  setCurrentPhase([withSteps EXCEPT !.researchAgentStatus.phase = "4"],
                             "complete")

\* the rerun of a phase with its downstream phases, as the store sees it
rerunPhase(store, phase) ==
    setPhaseRerunState(setReportStale(store, TRUE),
                       [inProgress |-> TRUE, phase |-> phase])

\* validateState: the set of messages it pushes to errors
validateState(store) ==
    LET state == store.workflow
        goals == store.researchAgentStatus.goals
        plan == store.researchAgentStatus.plan
    IN  IF state.batchId # Null
        THEN (IF Len(store.scrapingStatus.items) > 0 /\ state.batchId = Null
              THEN {"Scraping items exist but no batchId set"} ELSE {})
             \cup (IF ~goals.isNull /\ store.scrapingStatus.completed = 0
                   THEN {"Research goals exist but scraping not completed"} ELSE {})
             \cup (IF Len(store.phase3Steps) > 0 /\ plan.isNull
                   THEN {"Phase3 steps exist but no research plan found"} ELSE {})
             \cup (IF /\ ~state.finalReport.isNull
                      /\ ~plan.isNull
                      /\ Len(store.phase3Steps) < Len(plan.items)
                   THEN {"Final report exists but phase3 incomplete"} ELSE {})
             \cup (IF /\ ~state.workflowStarted
                      /\ \/ store.scrapingStatus.total > 0
                         \/ ~goals.isNull
                         \/ Len(store.phase3Steps) > 0
                   THEN {"Workflow has progress but workflowStarted is false"} ELSE {})
        ELSE IF \/ store.scrapingStatus.total > 0
                \/ ~goals.isNull
                \/ Len(store.phase3Steps) > 0
                \/ ~state.finalReport.isNull
             THEN {"No batchId but workflow state exists (state should be reset)"}
             ELSE {}

-----------------------------------------------------------------------------
(* The history page: hydrateWorkflowState, handleResume, handleView        *)

\* x ?? y on a number
CoalesceNumber(x, y) == IF x = NullNumber THEN y ELSE x

\* x || y on an array: an empty array is truthy
OrElseArray(x, y) == IF x.isNull THEN y ELSE x

updateResearchAgentStatus(ras, status) == Spread(ras, status)

\* sessionData.scraping_status
ScrapingSnapshots ==
    { NullObject,
      [isNull |-> FALSE, total |-> 1, expected_total |-> NullNumber,
       completed |-> 1, failed |-> 0, inProgress |-> 0,
       items |-> <<[link_id |-> "l1", url |-> "u1", status |-> "completed",
                    error |-> Undefined]>>,
       completionRate |-> 100, is100Percent |-> TRUE,
       canProceedToResearch |-> TRUE] }

\* sessionData.phase3: missing, or a plan with the steps run so far
Phase3States ==
    { NullObject,
      [isNull |-> FALSE, plan |-> NullArray, steps |-> <<>>,
       next_step_id |-> NullNumber],
      [isNull |-> FALSE, plan |-> ArrayOf(<<[step_id |-> 1, goal |-> "G"]>>),
       steps |-> <<>>, next_step_id |-> 1],
      [isNull |-> FALSE, plan |-> ArrayOf(<<[step_id |-> 1, goal |-> "G"]>>),
       steps |-> <<[step_id |-> 1, findings |-> "A"]>>, next_step_id |-> NullNumber] }

\* what getHistorySession answers: the session's place in the workflow
\* (status, current_phase, data_loaded, resume_required), its metadata
\* (phase1_confirmed_goals and research_plan, each missing or present, the
\* plan possibly empty) and its scraping and phase 3 state
SessionDetails ==
    { [session_id |-> id,
       status |-> at[1], current_phase |-> at[2],
       data_loaded |-> at[3], resume_required |-> at[4],
       scraping_status |-> scraping,
       phase1_confirmed_goals |-> metadata[1],
       research_plan |-> metadata[2],
       phase3 |-> phase3] :
        id \in {Undefined, "s1"},
        at \in { <<"completed", Undefined, TRUE, FALSE>>,
                 <<"completed", "complete", TRUE, FALSE>>,
                 <<"completed", Undefined, TRUE, TRUE>>,
                 <<"in-progress", "phase3", TRUE, TRUE>>,
                 <<"in-progress", Undefined, TRUE, FALSE>>,
                 <<"in-progress", Undefined, FALSE, FALSE>> },
        scraping \in ScrapingSnapshots,
        metadata \in
            { <<NullArray, NullArray>>,
              <<ArrayOf(<<[id |-> 1, goal_text |-> "X"]>>), NullArray>>,
              <<ArrayOf(<<[id |-> 1, goal_text |-> "X"]>>), ArrayOf(<<>>)>>,
              <<ArrayOf(<<[id |-> 1, goal_text |-> "X"]>>),
                ArrayOf(<<[step_id |-> 1, goal |-> "G"]>>)>> },
        phase3 \in Phase3States }

hydrateWorkflowState(store, sessionData) ==
    LET snapshot == sessionData.scraping_status
        scraped ==
            IF snapshot.isNull THEN store
            ELSE [store EXCEPT !.scrapingStatus = updateScrapingStatus(@,
                   [total |-> CoalesceNumber(snapshot.total,
                                 CoalesceNumber(snapshot.expected_total, 0)),
                    expectedTotal |-> CoalesceNumber(snapshot.expected_total,
                                         CoalesceNumber(snapshot.total, 0)),
                    completed |-> CoalesceNumber(snapshot.completed, 0),
                    failed |-> CoalesceNumber(snapshot.failed, 0),
                    inProgress |-> CoalesceNumber(snapshot.inProgress, 0),
                    items |-> snapshot.items,
                    completionRate |-> CoalesceNumber(snapshot.completionRate, 0),
                    is100Percent |-> snapshot.is100Percent,
                    canProceedToResearch |-> snapshot.canProceedToResearch])]
        phase3 == sessionData.phase3
        goals == OrElseArray(sessionData.phase1_confirmed_goals, ArrayOf(<<>>))
        plan == OrElseArray(sessionData.research_plan,
                  OrElseArray(IF phase3.isNull THEN NullArray ELSE phase3.plan,
                              ArrayOf(<<>>)))
        researchPhase == IF Len(plan.items) > 0 THEN "2"
                         ELSE IF Len(goals.items) > 0 THEN "1"
                         ELSE "0.5"
        mappedGoals == ArrayOf([i \in 1..Len(goals.items) |->
                                  [id |-> goals.items[i].id,
                                   goal_text |-> goals.items[i].goal_text]])
        phased == [scraped EXCEPT !.researchAgentStatus =
                     updateResearchAgentStatus(@, [phase |-> researchPhase])]
        withGoals == IF Len(mappedGoals.items) > 0
                     THEN [phased EXCEPT !.researchAgentStatus = setGoals(@, mappedGoals)]
                     ELSE phased
        withPlan == IF Len(plan.items) > 0
                    THEN [withGoals EXCEPT !.researchAgentStatus = setPlan(@, plan)]
                    ELSE withGoals
    IN  IF phase3.isNull THEN withPlan
        ELSE LET phase3Plan == OrElseArray(phase3.plan, plan)
                 planned == IF Len(phase3Plan.items) > 0 /\ Len(plan.items) = 0
                            THEN [withPlan EXCEPT !.researchAgentStatus =
                                    setPlan(@, phase3Plan)]
                            ELSE withPlan
             IN  IF Len(phase3.steps) > 0
                 THEN [planned EXCEPT
                         !.phase3Steps = setPhase3Steps(phase3.steps),
                         !.currentStepId =
                            setPhase3StepsCurrent(phase3.steps, phase3.next_step_id)]
                 ELSE planned

\* handleResume and handleView up to hydrateWorkflowState
restore(store, batchId, sessionData) ==
    LET sessionId == IF sessionData.session_id = Undefined THEN Null
                     ELSE sessionData.session_id
    IN  hydrateWorkflowState(
          setWorkflowStarted(setSessionId(setBatchId(store, batchId), sessionId), FALSE),
          sessionData)

\* handleResume; resumed is whether resumeSession, when called, succeeds
resolvedResumePhase(sessionData) ==
    IF sessionData.current_phase # Undefined THEN sessionData.current_phase
    ELSE IF sessionData.status = "completed" THEN "complete"
    ELSE IF sessionData.data_loaded THEN "research"
    ELSE "scraping"

shouldResume(sessionData) ==
    LET isIncomplete == /\ sessionData.status # "completed"
                        /\ resolvedResumePhase(sessionData) # "complete"
    IN  isIncomplete \/ sessionData.resume_required

handleResume(store, batchId, sessionData, resumed) ==
    LET restored == restore(store, batchId, sessionData)
    IN  IF shouldResume(sessionData) /\ ~resumed THEN restored
        ELSE setCurrentPhase(restored, resolvedResumePhase(sessionData))

\* phaseRoutes[resolvedPhase] || '/scraping'
phaseRoutes(phase) ==
    CASE phase = "scraping" -> "/scraping"
      [] phase = "research" -> "/research"
      [] phase = "phase3" -> "/phase3"
      [] phase = "complete" -> "/report"
      [] OTHER -> "/scraping"

handleView(store, batchId, sessionData) ==
    LET restored == restore(store, batchId, sessionData)
        resolvedPhase ==
            IF sessionData.current_phase # Undefined THEN sessionData.current_phase
            ELSE IF sessionData.status = "completed" THEN "complete"
            ELSE "research"
    IN  setCurrentPhase(restored, resolvedPhase)

-----------------------------------------------------------------------------
(* useProgressNavigation: the route, the hook's refs and its debounce timer *)

\* the paths of the router's pages
Routes == {"/", "/links", "/scraping", "/research", "/phase3", "/report", "/history"}

STEP_ROUTES ==
    [step \in 1..5 |-> CASE step = 1 -> "/"
                         [] step = 2 -> "/scraping"
                         [] step = 3 -> "/research"
                         [] step = 4 -> "/phase3"
                         [] step = 5 -> "/report"]

\* Object.values(STEP_ROUTES)
WorkflowRoutes == { STEP_ROUTES[step] : step \in 1..5 }

\* milliseconds
MANUAL_NAV_DISABLE_DURATION == 2000

\* Date.now() advances by half the window at a time, MaxTicks times
ClockStep == MANUAL_NAV_DISABLE_DURATION \div 2
MaxTicks == 3

\* the dependencies the hook's effects last ran with
NavigationDeps(nav, batchId) ==
    [currentActiveStep |-> nav.currentActiveStep,
     batchId |-> batchId,
     pathname |-> nav.pathname]

\* the effect that detects manual navigation, deps [pathname, currentActiveStep]
detectManualNavigation(nav) ==
    LET currentRoute == nav.pathname
        expectedRoute == STEP_ROUTES[nav.currentActiveStep]
        manual == IF /\ currentRoute # nav.lastRouteRef
                     /\ currentRoute # expectedRoute
                     /\ currentRoute \in WorkflowRoutes
                  THEN [isNull |-> FALSE, route |-> currentRoute, timestamp |-> nav.now]
                  ELSE nav.manualNavigationRef
    IN  [nav EXCEPT !.manualNavigationRef = manual, !.lastRouteRef = currentRoute]

\* the main effect, deps [currentActiveStep, navigate, batchId, pathname],
\* after its cleanup has cleared the pending timeout
navigateToActiveStep(nav, batchId) ==
    LET currentRoute == nav.pathname
        expectedRoute == STEP_ROUTES[nav.currentActiveStep]
        manual == nav.manualNavigationRef
        recent == /\ ~manual.isNull
                  /\ nav.now - manual.timestamp < MANUAL_NAV_DISABLE_DURATION
        expired == [nav EXCEPT !.manualNavigationRef = NullObject]
    IN  IF batchId = Null /\ nav.currentActiveStep = 1
        THEN [nav EXCEPT !.lastNavigatedStepRef = 1]
        ELSE IF currentRoute # expectedRoute /\ currentRoute \in WorkflowRoutes
        THEN [nav EXCEPT
                !.manualNavigationRef =
                    [isNull |-> FALSE, route |-> currentRoute, timestamp |-> nav.now],
                !.lastNavigatedStepRef =
                    CHOOSE step \in 1..5 : STEP_ROUTES[step] = currentRoute]
        ELSE IF recent THEN nav
        ELSE IF expired.lastNavigatedStepRef = nav.currentActiveStep THEN expired
        ELSE [expired EXCEPT !.navigationTimeoutRef = nav.currentActiveStep]

\* the effect that resets the tracking, deps [batchId]
resetNavigationTracking(nav, batchId) ==
    IF batchId = Null
    THEN [nav EXCEPT !.lastNavigatedStepRef = NullNumber,
                     !.manualNavigationRef = NullObject]
    ELSE nav

\* one commit of the hook: the cleanup of the main effect, then the effects
\* whose dependencies changed, in the order they are declared
navigationEffects(nav, batchId) ==
    LET deps == NavigationDeps(nav, batchId)
        cleaned == [nav EXCEPT !.navigationTimeoutRef = NullNumber]
        detected == IF \/ deps.pathname # nav.deps.pathname
                       \/ deps.currentActiveStep # nav.deps.currentActiveStep
                    THEN detectManualNavigation(cleaned)
                    ELSE cleaned
        navigated == navigateToActiveStep(detected, batchId)
        tracked == IF deps.batchId # nav.deps.batchId
                   THEN resetNavigationTracking(navigated, batchId)
                   ELSE navigated
    IN  [tracked EXCEPT !.deps = deps]

\* the callback of setTimeout(..., 300); window.location.pathname is the
\* router's pathname
navigationTimeout(nav) ==
    LET step == nav.navigationTimeoutRef
        targetRoute == STEP_ROUTES[step]
        fired == [nav EXCEPT !.navigationTimeoutRef = NullNumber]
    IN  IF nav.pathname # targetRoute
        THEN [fired EXCEPT !.pathname = targetRoute, !.lastNavigatedStepRef = step]
        ELSE fired

-----------------------------------------------------------------------------
(* ScrapingProgressPage: the runs of checkAndStartWorkflow and the page's   *)
(* refs                                                                     *)

\* runs of checkAndStartWorkflow the exploration follows
MaxRuns == 2

\* a run that has not started; report and status are what the backend
\* answered, startCalled whether the run has called startWorkflow
IdleRun ==
    [pc |-> "idle", batchId |-> Null, instance |-> 0, hasActualProgress |-> FALSE,
     report |-> "none", status |-> "none", startCalled |-> FALSE]

\* hasActualProgress, read from the scrapingStatus the effect closed over
hasActualProgress(ss) ==
    ss.expectedTotal > 0 \/ Len(ss.items) > 0 \/ ss.total > 0

\* the dependencies of the phase tracking effect
PhaseTrackingDeps(store) ==
    <<store.scrapingStatus.is100Percent, store.scrapingStatus.canProceedToResearch,
      store.workflow.cancelled>>

\* the body of the phase tracking effect
trackPhase(store) ==
    IF store.workflow.cancelled THEN store
    ELSE IF \/ store.scrapingStatus.is100Percent
            \/ store.scrapingStatus.canProceedToResearch
    THEN setCurrentPhase(store, "research")
    ELSE store

\* a run returns: the refs it writes are those of the page instance that
\* started it
endCheck(pg, r, initialized) ==
    LET ended == [pg EXCEPT !.runs = [@ EXCEPT ![r] = [@ EXCEPT !.pc = "done"]]]
    IN  IF pg.runs[r].instance # pg.instance THEN ended
        ELSE [ended EXCEPT
                !.checkInProgressRef = FALSE,
                !.hasInitializedRef = IF initialized THEN pg.runs[r].batchId ELSE @]

\* the hook mounted on the guidance page with an empty store, its three
\* effects run; the scraping page is not mounted
InitPage ==
    [check |-> "idle",
     pathname |-> "/",
     currentActiveStep |-> 1,
     lastNavigatedStepRef |-> NullNumber,
     navigationTimeoutRef |-> NullNumber,
     manualNavigationRef |-> NullObject,
     lastRouteRef |-> "/",
     deps |-> [currentActiveStep |-> 1, batchId |-> Null, pathname |-> "/"],
     now |-> 0,
     userNavigated |-> FALSE,
     mounted |-> FALSE,
     instance |-> 0,
     hasInitializedRef |-> Null,
     checkInProgressRef |-> FALSE,
     phaseDeps |-> <<FALSE, FALSE, FALSE>>,
     runs |-> [r \in 1..MaxRuns |-> IdleRun]]

Init ==
    /\ researchAgentStatus = InitResearchAgentStatus
    /\ scrapingStatus = InitScrapingStatus
    /\ phase3Steps = <<>>
    /\ currentStepId = NullNumber
    /\ stepLoop = InitStepLoop
    /\ workflow = InitWorkflow
    /\ page = InitPage

UpsertConversationMessage ==
    /\ \E message \in ConversationInputs :
         researchAgentStatus' = upsertConversationMessage(researchAgentStatus, message)
    /\ UNCHANGED <<workflow, page, stepLoop, scrapingStatus, phase3Steps, currentStepId>>

\* stream.start
StreamStart ==
    /\ \E streamId \in StreamIds, options \in StartOptions :
         researchAgentStatus' = startStream(researchAgentStatus, streamId, options)
    /\ UNCHANGED <<workflow, page, stepLoop, scrapingStatus, phase3Steps, currentStepId>>

\* stream.token
StreamToken ==
    /\ \E streamId \in StreamIds, token \in Tokens :
         /\ streamId \in DOMAIN researchAgentStatus.streams.buffers
              => researchAgentStatus.streams.buffers[streamId].tokenCount < MaxTokens
         /\ researchAgentStatus' = appendStreamToken(researchAgentStatus, streamId, token)
    /\ UNCHANGED <<workflow, page, stepLoop, scrapingStatus, phase3Steps, currentStepId>>

\* stream.complete
StreamComplete ==
    /\ \E streamId \in StreamIds, metadata \in CompleteMetadata :
         researchAgentStatus' = completeStream(researchAgentStatus, streamId, metadata)
    /\ UNCHANGED <<workflow, page, stepLoop, scrapingStatus, phase3Steps, currentStepId>>

\* stream.error
StreamError ==
    /\ \E streamId \in StreamIds, error \in StreamErrors :
         researchAgentStatus' = setStreamError(researchAgentStatus, streamId, error)
    /\ UNCHANGED <<workflow, page, stepLoop, scrapingStatus, phase3Steps, currentStepId>>

SetActiveStream ==
    /\ \E streamId \in StreamIds \cup {Null} :
         researchAgentStatus' = setActiveStream(researchAgentStatus, streamId)
    /\ UNCHANGED <<workflow, page, stepLoop, scrapingStatus, phase3Steps, currentStepId>>

PinStream ==
    /\ \E streamId \in StreamIds :
         researchAgentStatus' = pinStream(researchAgentStatus, streamId)
    /\ UNCHANGED <<workflow, page, stepLoop, scrapingStatus, phase3Steps, currentStepId>>

UnpinStream ==
    /\ \E streamId \in StreamIds :
         researchAgentStatus' = unpinStream(researchAgentStatus, streamId)
    /\ UNCHANGED <<workflow, page, stepLoop, scrapingStatus, phase3Steps, currentStepId>>

ClearStreamBuffer ==
    /\ \E streamId \in StreamIds \cup {Undefined} :
         researchAgentStatus' = clearStreamBuffer(researchAgentStatus, streamId)
    /\ UNCHANGED <<workflow, page, stepLoop, scrapingStatus, phase3Steps, currentStepId>>

\* goal.update
GoalUpdate ==
    /\ \E goal \in GoalUpdates :
         researchAgentStatus' = updateLiveGoal(researchAgentStatus, goal)
    /\ UNCHANGED <<workflow, page, stepLoop, scrapingStatus, phase3Steps, currentStepId>>

\* plan_step.update
PlanStepUpdate ==
    /\ \E step \in PlanStepUpdates :
         researchAgentStatus' = updateLivePlanStep(researchAgentStatus, step)
    /\ UNCHANGED <<workflow, page, stepLoop, scrapingStatus, phase3Steps, currentStepId>>

InsightUpdate ==
    /\ \E insight \in InsightUpdates :
         researchAgentStatus' = updateLiveInsight(researchAgentStatus, insight)
    /\ UNCHANGED <<workflow, page, stepLoop, scrapingStatus, phase3Steps, currentStepId>>

ActionUpdate ==
    /\ \E action \in ActionUpdates :
         researchAgentStatus' = updateLiveAction(researchAgentStatus, action)
    /\ UNCHANGED <<workflow, page, stepLoop, scrapingStatus, phase3Steps, currentStepId>>

ReportSectionUpdate ==
    /\ \E section \in ReportSectionUpdates :
         researchAgentStatus' = updateLiveReportSection(researchAgentStatus, section)
    /\ UNCHANGED <<workflow, page, stepLoop, scrapingStatus, phase3Steps, currentStepId>>

SetGoals ==
    /\ \E goals \in GoalLists :
         researchAgentStatus' = setGoals(researchAgentStatus, goals)
    /\ UNCHANGED <<workflow, page, stepLoop, scrapingStatus, phase3Steps, currentStepId>>

SetPlan ==
    /\ \E plan \in PlanLists :
         researchAgentStatus' = setPlan(researchAgentStatus, plan)
    /\ UNCHANGED <<workflow, page, stepLoop, scrapingStatus, phase3Steps, currentStepId>>

\* phase3_step.add
AddPhase3Step ==
    /\ \E step \in SessionSteps :
         /\ phase3Steps' = addPhase3Step(phase3Steps, step)
         /\ currentStepId' = step.step_id
    /\ UNCHANGED <<workflow, page, stepLoop, researchAgentStatus, scrapingStatus>>

\* hydration of the steps of a persisted snapshot
SetPhase3Steps ==
    /\ \E steps \in ArraysUpTo(SessionSteps, MaxHydratedSteps),
          nextStepId \in Phase3StepIds \cup {NullNumber} :
         /\ phase3Steps' = setPhase3Steps(steps)
         /\ currentStepId' = setPhase3StepsCurrent(steps, nextStepId)
    /\ UNCHANGED <<workflow, page, stepLoop, researchAgentStatus, scrapingStatus>>

\* batch.initialized and the other scraping-status updates
UpdateScrapingStatus ==
    /\ \E status \in ScrapingStatusUpdates :
         scrapingStatus' = updateScrapingStatus(scrapingStatus, status)
    /\ UNCHANGED <<workflow, page, stepLoop, researchAgentStatus, phase3Steps, currentStepId>>

UpdateScrapingItem ==
    /\ \E url \in Urls, status \in ScrapingItemStatuses :
         \E error \in IF status = "failed" THEN {"timeout"} ELSE {Undefined} :
            scrapingStatus' = updateScrapingItem(scrapingStatus, url, status, error)
    /\ UNCHANGED <<workflow, page, stepLoop, researchAgentStatus, phase3Steps, currentStepId>>

\* scraping_item.progress
UpdateScrapingItemProgress ==
    /\ \E link_id \in LinkIds, url \in Urls, progress \in ItemProgress :
         LET next == updateScrapingItemProgress(scrapingStatus, link_id, url, progress)
         IN  /\ Len(next.items) <= MaxItems
             /\ scrapingStatus' = next
    /\ UNCHANGED <<workflow, page, stepLoop, researchAgentStatus, phase3Steps, currentStepId>>

\* batch.initialized of a batch of three links
BatchInitialized ==
    /\ scrapingStatus' = updateScrapingStatus(scrapingStatus,
                                              [expectedTotal |-> Cardinality(BatchLinks)])
    /\ UNCHANGED <<workflow, page, stepLoop, researchAgentStatus, phase3Steps, currentStepId>>

\* scraping_item.progress for a link of the batch
BatchItemProgress ==
    /\ \E link_id \in BatchLinks, progress \in ItemProgress :
         scrapingStatus' = updateScrapingItemProgress(scrapingStatus, link_id,
                                                      "u1", progress)
    /\ UNCHANGED <<workflow, page, stepLoop, researchAgentStatus, phase3Steps, currentStepId>>

\* UserGuidancePage.handleSubmit
GuidanceSubmit ==
    /\ \E sessionId \in SessionIds : SetStore(setSessionId(Store, sessionId))
    /\ page' = [page EXCEPT !.pathname = "/links"]
    /\ UNCHANGED stepLoop

\* LinkInputPage.handleSubmit: the server answers with a batch id of its own
LinkSubmit ==
    /\ \E batchId \in BatchIds \ {workflow.batchId}, sessionId \in SessionIds :
         SetStore(handleSubmitLinks(Store, [batch_id |-> batchId,
                                            session_id |-> sessionId]))
    /\ page' = [page EXCEPT !.pathname = "/scraping"]
    /\ UNCHANGED stepLoop

\* handleStartNewSession
StartNewSession ==
    /\ SetStore(reset(Store))
    /\ UNCHANGED <<page, stepLoop>>

\* checkAndStartWorkflow finds the report ready
ReportFound ==
    /\ workflow.batchId # Null
    /\ page.check = "idle"
    /\ SetStore(reportReady(Store))
    /\ \E hasSessionId \in BOOLEAN :
         page' = [page EXCEPT !.check = IF hasSessionId THEN "history" ELSE "idle"]
    /\ UNCHANGED stepLoop

\* checkAndStartWorkflow receives the session data (or fails to)
SessionLoaded ==
    /\ page.check = "history"
    /\ \E results \in ResearchResults : SetStore(sessionLoaded(Store, results))
    /\ page' = [page EXCEPT !.check = "idle"]
    /\ UNCHANGED stepLoop

\* the phase tracking effect of the scraping page, run when the page mounts
\* and when a flag it reads changes
PhaseTrackingEffect ==
    /\ ~workflow.cancelled
    /\ scrapingStatus.is100Percent \/ scrapingStatus.canProceedToResearch
    /\ SetStore(setCurrentPhase(Store, "research"))
    /\ UNCHANGED <<page, stepLoop>>

SetCancelled ==
    /\ \E cancelled \in BOOLEAN, info \in CancellationInfos \cup {NullObject} :
         SetStore(setCancelled(Store, cancelled, info))
    /\ UNCHANGED <<page, stepLoop>>

\* FinalReportPage fetches the report the store does not hold yet
SetFinalReport ==
    /\ workflow.finalReport.isNull
    /\ workflow.batchId # Null
    /\ SetStore(setFinalReport(Store, ReadyReport))
    /\ UNCHANGED <<page, stepLoop>>

\* a phase is run again with its downstream phases
RerunPhase ==
    /\ workflow.batchId # Null
    /\ \E phase \in {"phase2", "phase3"} : SetStore(rerunPhase(Store, phase))
    /\ UNCHANGED <<page, stepLoop>>

\* the rerun ends
RerunFinished ==
    /\ workflow.rerunState.inProgress
    /\ SetStore(setPhaseRerunState(Store, [inProgress |-> FALSE]))
    /\ UNCHANGED <<page, stepLoop>>

\* a step is run again, and the rerun ends
SetStepRerunState ==
    /\ workflow.batchId # Null
    /\ \E payload \in { [inProgress |-> TRUE, stepId |-> 1],
                        [inProgress |-> FALSE] } :
         SetStore(setStepRerunState(Store, payload))
    /\ UNCHANGED <<page, stepLoop>>

\* an error of a phase is recorded
AddError ==
    /\ Len(workflow.errors) < MaxErrors
    /\ \E phase \in {"scraping", "research"} :
         SetStore(addError(Store, phase, "failed"))
    /\ UNCHANGED <<page, stepLoop>>

\* HistoryPage.handleResume on a listed session
HistoryResume ==
    /\ \E batchId \in BatchIds, sessionData \in SessionDetails, resumed \in BOOLEAN :
         /\ SetStore(handleResume(Store, batchId, sessionData, resumed))
         /\ page' = IF shouldResume(sessionData) /\ ~resumed THEN page
                    ELSE [page EXCEPT !.pathname =
                            phaseRoutes(resolvedResumePhase(sessionData))]
    /\ UNCHANGED stepLoop

\* HistoryPage.handleView on a listed session
HistoryView ==
    /\ \E batchId \in BatchIds, sessionData \in SessionDetails :
         SetStore(handleView(Store, batchId, sessionData))
    /\ page' = [page EXCEPT !.pathname = "/report"]
    /\ UNCHANGED stepLoop

\* React runs the hook's effects after a render in which their dependencies
\* changed
NavigationEffects ==
    /\ page.deps # NavigationDeps(page, workflow.batchId)
    /\ page' = navigationEffects(page, workflow.batchId)
    /\ UNCHANGED <<workflow, stepLoop, researchAgentStatus, scrapingStatus,
                   phase3Steps, currentStepId>>

\* the debounce timeout fires, the effects of the last render having run
NavigationTimeout ==
    /\ page.navigationTimeoutRef # NullNumber
    /\ page.deps = NavigationDeps(page, workflow.batchId)
    /\ page' = navigationTimeout(page)
    /\ UNCHANGED <<workflow, stepLoop, researchAgentStatus, scrapingStatus,
                   phase3Steps, currentStepId>>

\* useCurrentActiveStep returns the next step of a workflow in progress
ActiveStepChanges ==
    /\ workflow.batchId # Null
    /\ page.currentActiveStep < 5
    /\ page' = [page EXCEPT !.currentActiveStep = @ + 1]
    /\ UNCHANGED <<workflow, stepLoop, researchAgentStatus, scrapingStatus,
                   phase3Steps, currentStepId>>

\* the user follows a link of the sidebar
UserNavigates ==
    /\ \E route \in Routes \ {page.pathname} :
         page' = [page EXCEPT !.pathname = route, !.userNavigated = TRUE]
    /\ UNCHANGED <<workflow, stepLoop, researchAgentStatus, scrapingStatus,
                   phase3Steps, currentStepId>>

\* Date.now() moves on
ClockTick ==
    /\ page.now < MaxTicks * ClockStep
    /\ page' = [page EXCEPT !.now = @ + ClockStep]
    /\ UNCHANGED <<workflow, stepLoop, researchAgentStatus, scrapingStatus,
                   phase3Steps, currentStepId>>

NextNavigation ==
    \/ page.pathname = "/" /\ workflow.sessionId = Null /\ GuidanceSubmit
    \/ page.pathname = "/links" /\ workflow.batchId = Null /\ LinkSubmit
    \/ NavigationEffects
    \/ NavigationTimeout
    \/ ActiveStepChanges
    \/ UserNavigates
    \/ ClockTick

\* the scraping page mounts: without a batch it navigates home; with one its
\* mount effect starts a run of checkAndStartWorkflow, which awaits
\* getFinalReport, and the phase tracking effect runs
ScrapingPageMounts ==
    /\ page.pathname = "/scraping"
    /\ ~page.mounted
    /\ IF workflow.batchId = Null
       THEN page' = [page EXCEPT !.pathname = "/"]
       ELSE \E r \in 1..MaxRuns :
              /\ page.runs[r].pc = "idle"
              /\ \A q \in 1..(r - 1) : page.runs[q].pc # "idle"
              /\ page' = [page EXCEPT
                    !.mounted = TRUE,
                    !.instance = @ + 1,
                    !.hasInitializedRef = Null,
                    !.checkInProgressRef = TRUE,
                    !.phaseDeps = PhaseTrackingDeps(Store),
                    !.runs = [@ EXCEPT ![r] =
                        [IdleRun EXCEPT
                           !.pc = "getFinalReport",
                           !.batchId = workflow.batchId,
                           !.instance = page.instance + 1,
                           !.hasActualProgress = hasActualProgress(scrapingStatus)]]]
    /\ SetStore(trackPhase(Store))
    /\ UNCHANGED stepLoop

\* the scraping page unmounts when the route leaves it; the cleanup of the
\* mount effect runs, the run in flight goes on
ScrapingPageUnmounts ==
    /\ page.mounted
    /\ page.pathname # "/scraping"
    /\ page' = [page EXCEPT
          !.mounted = FALSE,
          !.checkInProgressRef =
              IF @ /\ page.hasInitializedRef # workflow.batchId THEN FALSE ELSE @]
    /\ UNCHANGED <<workflow, stepLoop, researchAgentStatus, scrapingStatus,
                   phase3Steps, currentStepId>>

\* the phase tracking effect re-runs after a flag it depends on changed
PhaseTracking ==
    /\ page.mounted
    /\ page.phaseDeps # PhaseTrackingDeps(Store)
    /\ SetStore(trackPhase(Store))
    /\ page' = [page EXCEPT !.phaseDeps = PhaseTrackingDeps(Store)]
    /\ UNCHANGED stepLoop

\* getFinalReport answers a run: a ready report, with or without a session
\* id in its metadata, or none
ReportAnswers ==
    \E r \in 1..MaxRuns :
        /\ page.runs[r].pc = "getFinalReport"
        /\ \E ready \in BOOLEAN, hasSessionId \in BOOLEAN :
             LET answered == [page EXCEPT !.runs = [@ EXCEPT ![r] =
                                [@ EXCEPT !.report = IF ready THEN "ready" ELSE "missing"]]]
             IN  IF ready
                 THEN /\ SetStore(reportReady(Store))
                      /\ page' = IF hasSessionId
                                 THEN [answered EXCEPT !.runs = [@ EXCEPT ![r] =
                                         [@ EXCEPT !.pc = "getHistorySession"]]]
                                 ELSE endCheck(answered, r, TRUE)
                 ELSE /\ ~hasSessionId
                      /\ page' = [answered EXCEPT !.runs = [@ EXCEPT ![r] =
                                    [@ EXCEPT !.pc = "getWorkflowStatus"]]]
                      /\ UNCHANGED <<workflow, researchAgentStatus, scrapingStatus,
                                     phase3Steps, currentStepId>>
        /\ UNCHANGED stepLoop

\* getHistorySession answers a run, or fails
HistoryAnswers ==
    \E r \in 1..MaxRuns :
        /\ page.runs[r].pc = "getHistorySession"
        /\ \E results \in ResearchResults : SetStore(sessionLoaded(Store, results))
        /\ page' = endCheck(page, r, TRUE)
        /\ UNCHANGED stepLoop

\* getWorkflowStatus answers a run, or fails
StatusAnswers ==
    \E r \in 1..MaxRuns :
        /\ page.runs[r].pc = "getWorkflowStatus"
        /\ \E status \in {"running", "cancelled", "pending", "error"} :
             LET answered == [page EXCEPT !.runs = [@ EXCEPT ![r] =
                                [@ EXCEPT !.status = status]]]
             IN  IF status = "running" /\ page.runs[r].hasActualProgress
                 THEN /\ SetStore(setWorkflowStarted(Store, TRUE))
                      /\ page' = endCheck(answered, r, TRUE)
                 ELSE /\ page' = IF status = "cancelled"
                                 THEN endCheck(answered, r, TRUE)
                                 ELSE [answered EXCEPT !.runs = [@ EXCEPT ![r] =
                                         [@ EXCEPT !.pc = "startWorkflow",
                                                   !.startCalled = TRUE]]]
                      /\ UNCHANGED <<workflow, researchAgentStatus, scrapingStatus,
                                     phase3Steps, currentStepId>>
        /\ UNCHANGED stepLoop

\* startWorkflow answers a run: started, 409 already exists, or another error
StartAnswers ==
    \E r \in 1..MaxRuns :
        /\ page.runs[r].pc = "startWorkflow"
        /\ \E marked \in BOOLEAN :
             /\ SetStore(IF marked THEN setWorkflowStarted(Store, TRUE) ELSE Store)
             /\ page' = endCheck(page, r, marked)
        /\ UNCHANGED stepLoop

NextCheck ==
    \/ page.pathname = "/" /\ workflow.sessionId = Null /\ GuidanceSubmit
    \/ page.pathname = "/links" /\ workflow.batchId = Null /\ LinkSubmit
    \/ workflow.batchId # Null /\ scrapingStatus.expectedTotal = 0 /\ BatchInitialized
    \/ UserNavigates /\ page'.pathname \in {"/scraping", "/history"}
    \/ ScrapingPageMounts
    \/ ScrapingPageUnmounts
    \/ PhaseTracking
    \/ ReportAnswers
    \/ HistoryAnswers
    \/ StatusAnswers
    \/ StartAnswers

NextHistory ==
    \/ HistoryResume
    \/ HistoryView

NextWorkflow ==
    \/ GuidanceSubmit
    \/ LinkSubmit
    \/ StartNewSession
    \/ ReportFound
    \/ SessionLoaded
    \/ PhaseTrackingEffect
    \/ SetCancelled

NextRerun ==
    \/ LinkSubmit
    \/ AddPhase3Step
    \/ SetFinalReport
    \/ RerunPhase
    \/ RerunFinished

StepRequest ==
    /\ \E s \in LoopSteps, requests \in SUBSET RequestTypes \ {{}} :
        /\ stepLoop[s].state = "gathering"
        /\ ~exhausted(stepLoop[s])
        /\ stepLoop' = [stepLoop EXCEPT ![s] = emitRequests(@, requests)]
    /\ UNCHANGED <<researchAgentStatus, scrapingStatus, phase3Steps, currentStepId,
                   workflow, page>>

StepFindings ==
    /\ \E s \in LoopSteps, findings \in LoopFindings :
        /\ stepLoop[s].state = "gathering"
        /\ ~exhausted(stepLoop[s])
        /\ stepLoop' = [stepLoop EXCEPT ![s] = emitFindings(@, findings)]
    /\ UNCHANGED <<researchAgentStatus, scrapingStatus, phase3Steps, currentStepId,
                   workflow, page>>

StepForceFinalize ==
    /\ \E s \in LoopSteps, findings \in LoopFindings :
        /\ stepLoop[s].state = "gathering"
        /\ exhausted(stepLoop[s])
        /\ stepLoop' = [stepLoop EXCEPT ![s] = forceFinalize(@, findings)]
    /\ UNCHANGED <<researchAgentStatus, scrapingStatus, phase3Steps, currentStepId,
                   workflow, page>>

StepDone ==
    /\ \E s \in LoopSteps :
        /\ stepLoop[s].state = "finalizing"
        /\ stepLoop' = [stepLoop EXCEPT ![s].state = "done"]
    /\ UNCHANGED <<researchAgentStatus, scrapingStatus, phase3Steps, currentStepId,
                   workflow, page>>

NextStepLoop ==
    \/ StepRequest
    \/ StepFindings
    \/ StepForceFinalize
    \/ StepDone

NextStreams ==
    \/ StreamStart
    \/ StreamToken
    \/ StreamComplete
    \/ StreamError
    \/ SetActiveStream
    \/ ClearStreamBuffer

NextSteps ==
    \/ AddPhase3Step
    \/ SetPhase3Steps

NextScraping ==
    \/ UpdateScrapingStatus
    \/ UpdateScrapingItem
    \/ UpdateScrapingItemProgress

\* The five entity families write disjoint fields of researchAgentStatus and
\* no entity action reads another family's fields, so the states of one
\* family reachable in any interleaving are those it reaches on its own.
\* NextEntities explores each family while the others are still empty.
GoalsEmpty ==
    /\ researchAgentStatus.liveGoals = <<>>
    /\ researchAgentStatus.goalOrder = <<>>
    /\ researchAgentStatus.goals = NullArray
PlanEmpty ==
    /\ researchAgentStatus.livePlanSteps = <<>>
    /\ researchAgentStatus.planOrder = <<>>
    /\ researchAgentStatus.plan = NullArray
InsightsEmpty == researchAgentStatus.liveInsights = <<>>
ActionsEmpty == researchAgentStatus.liveActions = <<>>
ReportSectionsEmpty == researchAgentStatus.liveReportSections = <<>>

NextEntities ==
    \/ PlanEmpty /\ InsightsEmpty /\ ActionsEmpty /\ ReportSectionsEmpty /\ GoalUpdate
    \/ PlanEmpty /\ InsightsEmpty /\ ActionsEmpty /\ ReportSectionsEmpty /\ SetGoals
    \/ GoalsEmpty /\ InsightsEmpty /\ ActionsEmpty /\ ReportSectionsEmpty /\ PlanStepUpdate
    \/ GoalsEmpty /\ InsightsEmpty /\ ActionsEmpty /\ ReportSectionsEmpty /\ SetPlan
    \/ GoalsEmpty /\ PlanEmpty /\ ActionsEmpty /\ ReportSectionsEmpty /\ InsightUpdate
    \/ GoalsEmpty /\ PlanEmpty /\ InsightsEmpty /\ ReportSectionsEmpty /\ ActionUpdate
    \/ GoalsEmpty /\ PlanEmpty /\ InsightsEmpty /\ ActionsEmpty /\ ReportSectionUpdate

\* the four stream events alone
NextStreamEvents ==
    \/ StreamStart
    \/ StreamToken
    \/ StreamComplete
    \/ StreamError

Next ==
    \/ NextStreams
    \/ PinStream
    \/ UnpinStream
    \/ GoalUpdate
    \/ SetGoals
    \/ PlanStepUpdate
    \/ SetPlan
    \/ InsightUpdate
    \/ ActionUpdate
    \/ ReportSectionUpdate
    \/ NextSteps
    \/ NextScraping
    \/ UpsertConversationMessage
    \/ NextStepLoop
    \/ NextWorkflow
    \/ NextRerun
    \/ NextHistory
    \/ BatchInitialized
    \/ BatchItemProgress
    \/ SetStepRerunState
    \/ AddError
    \/ NavigationEffects
    \/ NavigationTimeout
    \/ ActiveStepChanges
    \/ UserNavigates
    \/ ClockTick
    \/ ScrapingPageMounts
    \/ ScrapingPageUnmounts
    \/ PhaseTracking
    \/ ReportAnswers
    \/ HistoryAnswers
    \/ StatusAnswers
    \/ StartAnswers

Spec == Init /\ [][Next]_vars
SpecStreams == Init /\ [][NextStreams]_vars
SpecStreamEvents == Init /\ [][NextStreamEvents]_vars
\* selecting and pinning streams while they start and receive tokens
NextActiveStream ==
    \/ StreamStart
    \/ StreamToken
    \/ StreamComplete
    \/ SetActiveStream
    \/ PinStream
    \/ UnpinStream

SpecActiveStream == Init /\ [][NextActiveStream]_vars
SpecConversation == Init /\ [][UpsertConversationMessage]_vars
SpecStepLoop == Init /\ [][NextStepLoop]_vars
\* a worker of the pool that holds a step keeps running it
SpecStepLoopFair == SpecStepLoop /\ WF_vars(NextStepLoop)
SpecWorkflow == Init /\ [][NextWorkflow]_vars
SpecRerun == Init /\ [][NextRerun]_vars
\* the hook's effects run and its timeout fires when they can
SpecNavigation ==
    /\ Init
    /\ [][NextNavigation]_vars
    /\ WF_vars(NavigationEffects)
    /\ WF_vars(NavigationTimeout)
\* the backend answers every request and the effects run
SpecCheck ==
    /\ Init
    /\ [][NextCheck]_vars
    /\ WF_vars(ScrapingPageMounts)
    /\ WF_vars(PhaseTracking)
    /\ WF_vars(ReportAnswers)
    /\ WF_vars(HistoryAnswers)
    /\ WF_vars(StatusAnswers)
    /\ WF_vars(StartAnswers)
SpecHistory == Init /\ [][NextHistory]_vars
\* stream errors and a first phase error beside a first goal list, step and
\* scraping item
NextErrors ==
    \/ StreamStart
    \/ StreamError
    \/ workflow.errors = <<>> /\ AddError
    \/ researchAgentStatus.goals.isNull /\ SetGoals
    \/ phase3Steps = <<>> /\ AddPhase3Step
    \/ scrapingStatus.items = <<>> /\ UpdateScrapingItemProgress

SpecErrors == Init /\ [][NextErrors]_vars
\* the setters of the session's control fields beside stream and step events
NextControl ==
    \/ GuidanceSubmit
    \/ LinkSubmit
    \/ SetCancelled
    \/ RerunPhase
    \/ RerunFinished
    \/ SetStepRerunState
    \/ StreamStart
    \/ phase3Steps = <<>> /\ AddPhase3Step

SpecControl == Init /\ [][NextControl]_vars
\* a batch of three links being scraped
NextBatch ==
    \/ BatchInitialized
    \/ BatchItemProgress

SpecBatch == Init /\ [][NextBatch]_vars
\* a session while its links are scraped and its goals arrive
NextValidateGoals ==
    \/ LinkSubmit
    \/ GoalUpdate
    \/ UpdateScrapingItemProgress

\* a session from its links to its report, with its plan and steps
NextValidateReport ==
    \/ GuidanceSubmit
    \/ LinkSubmit
    \/ ReportFound
    \/ SessionLoaded
    \/ SetPlan
    \/ AddPhase3Step

SpecValidateGoals == Init /\ [][NextValidateGoals]_vars
SpecValidateReport == Init /\ [][NextValidateReport]_vars
SpecStepsAdd == Init /\ [][AddPhase3Step]_vars
SpecSteps == Init /\ [][NextSteps]_vars
SpecScraping == Init /\ [][NextScraping]_vars
SpecEntities == Init /\ [][NextEntities]_vars

-----------------------------------------------------------------------------
(* The store as a fold over events: one event is one call of a store       *)
(* action, applied to the whole snapshot.                                  *)

Snapshot ==
    [researchAgentStatus |-> researchAgentStatus,
     scrapingStatus |-> scrapingStatus,
     phase3Steps |-> phase3Steps,
     currentStepId |-> currentStepId]

\* stream.start, stream.token, stream.complete, stream.error, goal.update,
\* plan_step.update, phase3_step.add, scraping_item.progress, batch.initialized
ProjectorEvents ==
    { [action |-> "startStream", streamId |-> id, options |-> o] :
        id \in StreamIds, o \in StartOptions }
    \cup { [action |-> "appendStreamToken", streamId |-> id, token |-> t] :
        id \in StreamIds, t \in Tokens }
    \cup { [action |-> "completeStream", streamId |-> id, metadata |-> m] :
        id \in StreamIds, m \in CompleteMetadata }
    \cup { [action |-> "setStreamError", streamId |-> id, error |-> e] :
        id \in StreamIds, e \in StreamErrors }
    \cup { [action |-> "updateLiveGoal", goal |-> g] : g \in GoalUpdates }
    \cup { [action |-> "updateLivePlanStep", step |-> p] : p \in PlanStepUpdates }
    \cup { [action |-> "addPhase3Step", step |-> p] : p \in SessionSteps }
    \cup { [action |-> "updateScrapingItemProgress",
            link_id |-> l, url |-> u, progress |-> p] :
        l \in LinkIds, u \in Urls, p \in ItemProgress }
    \cup { [action |-> "updateScrapingStatus", status |-> [expectedTotal |-> n]] :
        n \in {NullNumber, 0, 1, 2} }
    \cup { [action |-> "upsertConversationMessage",
            message |-> [id |-> i, timestamp |-> t]] :
        i \in LateIds, t \in LateTimestamps }

apply(snap, e) ==
    CASE e.action = "startStream" ->
           [snap EXCEPT !.researchAgentStatus = startStream(@, e.streamId, e.options)]
      [] e.action = "appendStreamToken" ->
           [snap EXCEPT !.researchAgentStatus = appendStreamToken(@, e.streamId, e.token)]
      [] e.action = "completeStream" ->
           [snap EXCEPT !.researchAgentStatus = completeStream(@, e.streamId, e.metadata)]
      [] e.action = "setStreamError" ->
           [snap EXCEPT !.researchAgentStatus = setStreamError(@, e.streamId, e.error)]
      [] e.action = "updateLiveGoal" ->
           [snap EXCEPT !.researchAgentStatus = updateLiveGoal(@, e.goal)]
      [] e.action = "updateLivePlanStep" ->
           [snap EXCEPT !.researchAgentStatus = updateLivePlanStep(@, e.step)]
      [] e.action = "addPhase3Step" ->
           [snap EXCEPT !.phase3Steps = addPhase3Step(@, e.step),
                        !.currentStepId = e.step.step_id]
      [] e.action = "updateScrapingItemProgress" ->
           [snap EXCEPT !.scrapingStatus =
                updateScrapingItemProgress(@, e.link_id, e.url, e.progress)]
      [] e.action = "updateScrapingStatus" ->
           [snap EXCEPT !.scrapingStatus = updateScrapingStatus(@, e.status)]
      [] e.action = "upsertConversationMessage" ->
           [snap EXCEPT !.researchAgentStatus = upsertConversationMessage(@, e.message)]

\* set(partial, true): the partial replaces the state instead of merging
dispatchReplacing(store, e) ==
    Spread(initialState,
           apply([k \in {"researchAgentStatus", "scrapingStatus", "phase3Steps",
                         "currentStepId"} |-> store[k]], e))

\* set((state) => partial) of the store action an event calls: the keys the
\* action returns are merged into the store
dispatch(store, e) ==
    Spread(store,
           apply([k \in {"researchAgentStatus", "scrapingStatus", "phase3Steps",
                         "currentStepId"} |-> store[k]], e))

-----------------------------------------------------------------------------
(* Claims                                                                  *)

\* C1: applying any Projector event twice in a row yields the same snapshot
\* as applying it once.
C1_Idempotent ==
    \A e \in ProjectorEvents :
        apply(apply(Snapshot, e), e) = apply(Snapshot, e)

\* C2: applying two Projector events in either order yields the same
\* snapshot, so every permutation of an event multiset ends in one snapshot.
C2_OrderIndependent ==
    \A e1, e2 \in ProjectorEvents :
        apply(apply(Snapshot, e1), e2) = apply(apply(Snapshot, e2), e1)

\* C3: an entity update changes exactly the fields present in the event; an
\* omitted field, status included, keeps the entity's previous value, and no
\* other entity of the family changes.
FieldLevelMerge(before, after, event, id, fields) ==
    /\ DOMAIN after = DOMAIN before \cup {id}
    /\ \A other \in DOMAIN before \ {id} : after[other] = before[other]
    /\ \A f \in fields :
        after[id][f] = IF f \in DOMAIN event THEN event[f]
                       ELSE IF id \in DOMAIN before THEN before[id][f]
                       ELSE IF f = "status" THEN "streaming"
                       ELSE Undefined

C3_FieldLevelMerge ==
    LET ras == researchAgentStatus
    IN  /\ \A e \in GoalUpdates :
            FieldLevelMerge(ras.liveGoals, updateLiveGoal(ras, e).liveGoals,
                            e, e.id, {"goal_text", "status"})
        /\ \A e \in PlanStepUpdates :
            FieldLevelMerge(ras.livePlanSteps, updateLivePlanStep(ras, e).livePlanSteps,
                            e, e.step_id, {"goal", "status"})
        /\ \A e \in InsightUpdates :
            FieldLevelMerge(ras.liveInsights, updateLiveInsight(ras, e).liveInsights,
                            e, e.id, {"title", "status"})
        /\ \A e \in ActionUpdates :
            FieldLevelMerge(ras.liveActions, updateLiveAction(ras, e).liveActions,
                            e, e.id, {"description", "status"})
        /\ \A e \in ReportSectionUpdates :
            FieldLevelMerge(ras.liveReportSections,
                            updateLiveReportSection(ras, e).liveReportSections,
                            e, e.id, {"content", "status"})

\* a goal whose status is not the default and whose text is set: an update
\* that omits either field has a previous value to keep
C3_Witness ==
    /\ 1 \in DOMAIN researchAgentStatus.liveGoals
    /\ researchAgentStatus.liveGoals[1].status = "ready"
    /\ researchAgentStatus.liveGoals[1].goal_text = "X"

\* C4: once an entity's status is ready or error, an older update event for
\* that id delivered again after it never leaves the entity with status
\* pending.
StaleEventRegresses(update(_, _), family, events, key) ==
    \E old, new \in events :
        /\ old[key] = new[key]
        /\ "status" \in DOMAIN new
        /\ new.status \in {"ready", "error"}
        /\ LET first == update(researchAgentStatus, old)
               settled == update(first, new)
               redelivered == update(settled, old)
           IN  redelivered[family][old[key]].status = "pending"

C4_NoStatusRegression ==
    /\ ~StaleEventRegresses(updateLiveGoal, "liveGoals", GoalUpdates, "id")
    /\ ~StaleEventRegresses(updateLivePlanStep, "livePlanSteps",
                            PlanStepUpdates, "step_id")
    /\ ~StaleEventRegresses(updateLiveInsight, "liveInsights", InsightUpdates, "id")
    /\ ~StaleEventRegresses(updateLiveAction, "liveActions", ActionUpdates, "id")
    /\ ~StaleEventRegresses(updateLiveReportSection, "liveReportSections",
                            ReportSectionUpdates, "id")

\* C5: starting from an empty list, after any sequence of phase3_step.add
\* events the list holds one entry per step_id in ascending order, and an add
\* stores its payload as the entry of its id and leaves the other ids' entries.
Ascending(steps) ==
    \A i \in 1..Len(steps) - 1 : steps[i].step_id < steps[i + 1].step_id

Entries(steps) == { steps[i] : i \in 1..Len(steps) }

C5_DedupAndSortOnAdd ==
    /\ Ascending(phase3Steps)
    /\ \A step \in SessionSteps :
        LET after == addPhase3Step(phase3Steps, step)
        IN  /\ Ascending(after)
            /\ Entries(after) =
                 { s \in Entries(phase3Steps) : s.step_id # step.step_id } \cup {step}

\* steps 1, 2, 3 stored in plan order although step 2 arrived last
C5_Witness ==
    /\ Len(phase3Steps) = 3
    /\ \A i \in 1..3 : phase3Steps[i].step_id = i
    /\ currentStepId = 2

\* C6: in every reachable state, hydration included, no two entries of
\* phase3Steps share a step_id and the list is sorted by step_id.
C6_UniqueAndSorted == Ascending(phase3Steps)

C8_DerivedAggregates ==
    /\ scrapingStatus.completed = CountStatus(scrapingStatus.items, {"completed"})
    /\ scrapingStatus.failed = CountStatus(scrapingStatus.items, {"failed"})
    /\ scrapingStatus.inProgress = CountStatus(scrapingStatus.items, {"in-progress"})

\* C9: goalOrder and planOrder hold no id twice, and no operation removes or
\* reorders the ids already there: the old order is a prefix of the new one.
NoDuplicates(seq) == \A i, j \in 1..Len(seq) : seq[i] = seq[j] => i = j

IsPrefix(short, long) ==
    /\ Len(short) <= Len(long)
    /\ \A i \in 1..Len(short) : long[i] = short[i]

C9_AppendOnlyOrders ==
    [][/\ NoDuplicates(researchAgentStatus'.goalOrder)
       /\ NoDuplicates(researchAgentStatus'.planOrder)
       /\ IsPrefix(researchAgentStatus.goalOrder, researchAgentStatus'.goalOrder)
       /\ IsPrefix(researchAgentStatus.planOrder, researchAgentStatus'.planOrder)]_vars

\* C10: across stream events a buffer's tokenCount never decreases and its
\* raw text only grows by appending.
C10_MonotoneBuffers ==
    [][\A id \in DOMAIN researchAgentStatus.streams.buffers :
         /\ id \in DOMAIN researchAgentStatus'.streams.buffers
         /\ researchAgentStatus'.streams.buffers[id].tokenCount
              >= researchAgentStatus.streams.buffers[id].tokenCount
         /\ IsPrefix(researchAgentStatus.streams.buffers[id].raw,
                     researchAgentStatus'.streams.buffers[id].raw)]_vars

\* C11: setActiveStream(id), for the id of a buffer, an unknown id or null,
\* leaves every buffer, the stream order and the pinned list as they were and
\* leaves the store outside researchAgentStatus untouched; afterwards
\* activeStreamId = id.
C11_PureSelection ==
    \A id \in StreamIds \cup {Null} :
        LET before == researchAgentStatus.streams
            after == setActiveStream(researchAgentStatus, id).streams
        IN  /\ after.buffers = before.buffers
            /\ after.order = before.order
            /\ after.pinned = before.pinned
            /\ after.activeStreamId = id

\* the foreground was switched away to null while s1 holds text and is pinned,
\* and s2 has no buffer: s2 is an unknown id to select
C11_Witness ==
    /\ researchAgentStatus.streams.activeStreamId = Null
    /\ "s1" \in DOMAIN researchAgentStatus.streams.buffers
    /\ "s2" \notin DOMAIN researchAgentStatus.streams.buffers
    /\ researchAgentStatus.streams.buffers["s1"].tokenCount = 1
    /\ Includes(researchAgentStatus.streams.pinned, "s1")

\* C12: conversationMessages has at most 200 entries, no two with one id, in
\* non-decreasing timestamp order; an upsert keeps the arriving message and
\* the entries of the other ids except for those it evicts, and an evicted
\* entry is never newer than an entry that is kept.
EntriesOf(messages) == { messages[i] : i \in 1..Len(messages) }

C12_CappedSortedConversation ==
    LET messages == researchAgentStatus.conversationMessages
    IN  /\ Len(messages) <= ConversationLimit
        /\ \A i, j \in 1..Len(messages) : messages[i].id = messages[j].id => i = j
        /\ AscendingTimestamps(messages)
        /\ \A message \in ConversationInputs :
            LET after == upsertConversationMessage(researchAgentStatus, message)
                             .conversationMessages
                offered == { m \in EntriesOf(messages) : m.id # message.id }
                               \cup {message}
                evicted == offered \ EntriesOf(after)
            IN  /\ EntriesOf(after) \subseteq offered
                /\ Cardinality(evicted) =
                     IF Cardinality(offered) > ConversationLimit
                     THEN Cardinality(offered) - ConversationLimit ELSE 0
                /\ \A e \in evicted, k \in EntriesOf(after) : e.timestamp <= k.timestamp

\* the list is full, messages 1 and 2 have been evicted, and the message that
\* arrived late sits last
C12_Witness ==
    LET messages == researchAgentStatus.conversationMessages
    IN  /\ Len(messages) = ConversationLimit
        /\ messages[1].id = 3
        /\ messages[ConversationLimit].id = 0

\* C13: the response a step emits never carries both a non-empty requests[]
\* and non-null findings, and the client reads a response with requests as a
\* request and one with findings as final.
C13_RequestsExcludeFindings ==
    \A s \in LoopSteps :
        LET response == stepLoop[s].response
        IN  /\ ~(response.requests # {} /\ response.findings # Null)
            /\ response.requests # {}
                 => determineResponseTypeFromContent(response) = "request"
            /\ response.findings # Null
                 => determineResponseTypeFromContent(response) = "final"

\* step 1 asked for more context in its last iteration while step 2 has
\* emitted its findings
C13_Witness ==
    /\ stepLoop[1].state = "gathering"
    /\ stepLoop[1].response.requests = RequestTypes
    /\ stepLoop[2].state = "done"
    /\ stepLoop[2].response.findings = "B"

PhaseRank(phase) == CHOOSE i \in 1..Len(Phases) : Phases[i] = phase

C15_PhaseNeverMovesBack ==
    [][(/\ workflow'.batchId = workflow.batchId
        /\ ~workflow.rerunState.inProgress
        /\ ~workflow'.rerunState.inProgress)
       => PhaseRank(workflow'.currentPhase) >= PhaseRank(workflow.currentPhase)]_vars

\* C16: the session identifier, the scraping items, the goals, the plan, the
\* phase 3 steps and the final report are cleared only by a reset the user
\* asked for: handleStartNewSession, or the reset handleSubmit confirms with
\* the user when a session exists.
SessionStateCleared ==
    \/ workflow.sessionId # Null /\ workflow'.sessionId = Null
    \/ Len(scrapingStatus.items) > 0 /\ Len(scrapingStatus'.items) = 0
    \/ ~researchAgentStatus.goals.isNull /\ researchAgentStatus'.goals.isNull
    \/ ~researchAgentStatus.plan.isNull /\ researchAgentStatus'.plan.isNull
    \/ Len(phase3Steps) > 0 /\ Len(phase3Steps') = 0
    \/ ~workflow.finalReport.isNull /\ workflow'.finalReport.isNull

C16_ResetOnlyByUser ==
    [][SessionStateCleared
       => (StartNewSession \/ (LinkSubmit /\ hasActiveSession(Store)))]_vars

\* C17: when links are submitted for a session created on the guidance page,
\* the store's sessionId is afterwards still that session.
C17_BatchKeepsSession ==
    [][(LinkSubmit /\ workflow.sessionId # Null /\ ~hasActiveSession(Store))
       => workflow'.sessionId = workflow.sessionId]_vars

\* C18: cancelled is true exactly when a cancellation record is present.
C18_CancelledHasRecord ==
    workflow.cancelled <=> ~workflow.cancellationInfo.isNull

\* C19: while cancelled stays true, currentPhase does not change.
C19_NoPhaseChangeWhenCancelled ==
    [][(workflow.cancelled /\ workflow'.cancelled)
       => workflow'.currentPhase = workflow.currentPhase]_vars

NonEmpty(array) == ~array.isNull /\ Len(array.items) > 0

C21_HydratedPhaseInferred ==
    \A batchId \in BatchIds \ {workflow.batchId}, sessionData \in SessionDetails :
        LET after == restore(Store, batchId, sessionData).researchAgentStatus
        IN  after.phase = IF NonEmpty(after.plan) THEN "2"
                          ELSE IF NonEmpty(after.goals) THEN "1"
                          ELSE "0.5"

\* C22: for every persisted session record, handleResume (its resume command
\* succeeding) and handleView leave the store in the same state.
C22_ResumeAndViewAgree ==
    \A batchId \in BatchIds, sessionData \in SessionDetails :
        handleResume(Store, batchId, sessionData, TRUE)
            = handleView(Store, batchId, sessionData)

\* C23: the validator reports a violation whenever a live goal, the goal
\* list, a live plan step or the plan exists while no scraping item is
\* completed, and does not report the goals rule once an item is completed.
GoalOrPlanExists ==
    \/ DOMAIN researchAgentStatus.liveGoals # {}
    \/ ~researchAgentStatus.goals.isNull
    \/ DOMAIN researchAgentStatus.livePlanSteps # {}
    \/ ~researchAgentStatus.plan.isNull

C23_GoalsNeedCompletedScraping ==
    /\ (GoalOrPlanExists /\ scrapingStatus.completed = 0) => validateState(Store) # {}
    /\ scrapingStatus.completed >= 1 =>
         "Research goals exist but scraping not completed" \notin validateState(Store)

\* C24: the validator flags the snapshot as incomplete exactly when a final
\* report and a plan exist and the number of phase 3 steps differs from the
\* length of the plan.
C24_IncompleteIffCountsDiffer ==
    ("Final report exists but phase3 incomplete" \in validateState(Store))
      <=> (/\ ~workflow.finalReport.isNull
           /\ ~researchAgentStatus.plan.isNull
           /\ Len(phase3Steps) # Len(researchAgentStatus.plan.items))

\* C25: the validator reports a violation whenever no session identifier is
\* set and a derived collection is non-empty.
DerivedCollectionExists ==
    \/ Len(scrapingStatus.items) > 0
    \/ GoalOrPlanExists
    \/ Len(phase3Steps) > 0
    \/ ~workflow.finalReport.isNull

C25_NoSessionNoCollections ==
    (workflow.sessionId = Null /\ DerivedCollectionExists) => validateState(Store) # {}

\* C26: with expected_total = 3 and exactly three scraping items, two
\* completed and one failed, the completion rate is 1.0 and
\* canProceedToResearch is true.
C26_BatchOfThreeCanProceed ==
    (/\ scrapingStatus.expectedTotal = 3
     /\ Len(scrapingStatus.items) = 3
     /\ scrapingStatus.completed = 2
     /\ scrapingStatus.failed = 1)
    => (/\ overallProgress(scrapingStatus) = 100
        /\ scrapingStatus.canProceedToResearch)

\* C27: a stream error for one stream changes that stream's buffer only (to
\* status error): every other buffer, every live entity, the conversation,
\* every phase 3 step and the scraping status stay as they were; addError
\* changes nothing but the list of errors.
C27_ErrorsStayLocal ==
    /\ \A streamId \in StreamIds, error \in StreamErrors :
         LET before == researchAgentStatus
             after == dispatch(Store, [action |-> "setStreamError",
                                       streamId |-> streamId, error |-> error])
             buffers == after.researchAgentStatus.streams.buffers
         IN  /\ DOMAIN buffers = DOMAIN before.streams.buffers
             /\ \A id \in DOMAIN buffers \ {streamId} :
                  buffers[id] = before.streams.buffers[id]
             /\ streamId \in DOMAIN buffers => buffers[streamId].status = "error"
             /\ after.researchAgentStatus.liveGoals = before.liveGoals
             /\ after.researchAgentStatus.livePlanSteps = before.livePlanSteps
             /\ after.researchAgentStatus.liveInsights = before.liveInsights
             /\ after.researchAgentStatus.liveActions = before.liveActions
             /\ after.researchAgentStatus.liveReportSections = before.liveReportSections
             /\ after.researchAgentStatus.conversationMessages
                  = before.conversationMessages
             /\ after.phase3Steps = phase3Steps
             /\ after.scrapingStatus = scrapingStatus
             /\ after.workflow = workflow
    /\ \A phase \in {"scraping", "research"} :
         LET after == addError(Store, phase, "failed")
         IN  /\ after.researchAgentStatus = researchAgentStatus
             /\ after.phase3Steps = phase3Steps
             /\ after.scrapingStatus = scrapingStatus
             /\ after.workflow.errors = Append(workflow.errors,
                                               [phase |-> phase, message |-> "failed"])

\* s1 has failed while s2 is still active, beside a ready goal, a step, a
\* scraping item in progress and a recorded error
C27_Witness ==
    LET buffers == researchAgentStatus.streams.buffers
    IN  /\ DOMAIN buffers = {"s1", "s2"}
        /\ buffers["s1"].status = "error"
        /\ buffers["s2"].status = "active"
        /\ \E id \in DOMAIN researchAgentStatus.liveGoals :
             researchAgentStatus.liveGoals[id].status = "ready"
        /\ Len(phase3Steps) = 1
        /\ Len(scrapingStatus.items) = 1
        /\ scrapingStatus.items[1].status = "in-progress"
        /\ Len(workflow.errors) = 1

C29_ForegroundOnlyBySelection ==
    LET foreground == researchAgentStatus.streams.activeStreamId
    IN  foreground # Null =>
          \A e \in ProjectorEvents :
              (/\ e.action \in {"startStream", "appendStreamToken",
                                "completeStream", "setStreamError"}
               /\ e.streamId # foreground)
              => LET after == dispatch(Store, e).researchAgentStatus
                 IN  /\ after.streams.activeStreamId = foreground
                     /\ after.streamBuffer = researchAgentStatus.streamBuffer

\* C30: a stream.token for a buffer whose status is completed or error leaves
\* that status and leaves isStreaming false.
C30_TerminalStatusStable ==
    \A id \in DOMAIN researchAgentStatus.streams.buffers, token \in Tokens :
        LET buffer == researchAgentStatus.streams.buffers[id]
            after == appendStreamToken(researchAgentStatus, id, token).streams.buffers[id]
        IN  buffer.status \in {"completed", "error"}
            => (after.status = buffer.status /\ ~after.isStreaming)

\* C31: streams.order has no duplicate id and lists exactly the ids that
\* have an entry in streams.buffers, in every state the stream events and
\* stream actions reach.
C31_OrderListsBuffers ==
    LET order == researchAgentStatus.streams.order
    IN  /\ NoDuplicates(order)
        /\ {order[i] : i \in 1..Len(order)} = DOMAIN researchAgentStatus.streams.buffers

\* C32: the legacy streamBuffer text is the raw text of the foreground buffer
\* (empty when there is none) and streamingState.isStreaming is that buffer's
\* isStreaming (false when there is none).
C32_LegacyMirrorsForeground ==
    LET streams == researchAgentStatus.streams
        found == /\ streams.activeStreamId # Null
                 /\ streams.activeStreamId \in DOMAIN streams.buffers
    IN  /\ researchAgentStatus.streamBuffer
             = IF found THEN streams.buffers[streams.activeStreamId].raw ELSE <<>>
        /\ researchAgentStatus.streamingState.isStreaming
             = IF found THEN streams.buffers[streams.activeStreamId].isStreaming ELSE FALSE

\* two buffers with different text exist, the foreground one has received a
\* token and has stopped streaming
C32_Witness ==
    LET streams == researchAgentStatus.streams
    IN  /\ streams.activeStreamId = "s1"
        /\ DOMAIN streams.buffers = {"s1", "s2"}
        /\ streams.buffers["s1"].raw # <<>>
        /\ streams.buffers["s2"].raw # streams.buffers["s1"].raw
        /\ ~streams.buffers["s1"].isStreaming
        /\ streams.buffers["s2"].isStreaming

\* C33: a stream.complete or stream.error for an id that has no buffer
\* leaves the whole store as it was, and a later stream.start of that id
\* gives the state it would have given without the event.
C33_UnknownStreamIgnored ==
    \A id \in StreamIds \ DOMAIN researchAgentStatus.streams.buffers :
        /\ \A m \in CompleteMetadata :
             LET e == [action |-> "completeStream", streamId |-> id, metadata |-> m]
             IN  /\ dispatch(Store, e) = Store
                 /\ \A o \in StartOptions :
                      startStream(dispatch(Store, e).researchAgentStatus, id, o)
                        = startStream(researchAgentStatus, id, o)
        /\ \A error \in StreamErrors :
             LET e == [action |-> "setStreamError", streamId |-> id, error |-> error]
             IN  /\ dispatch(Store, e) = Store
                 /\ \A o \in StartOptions :
                      startStream(dispatch(Store, e).researchAgentStatus, id, o)
                        = startStream(researchAgentStatus, id, o)

\* s1 is streaming in the foreground and s2 has no buffer yet
C33_Witness ==
    LET streams == researchAgentStatus.streams
    IN  /\ streams.activeStreamId = "s1"
        /\ DOMAIN streams.buffers = {"s1"}
        /\ streams.buffers["s1"].tokenCount > 0
        /\ researchAgentStatus.streamingState.isStreaming

\* C34: right after upsertConversationMessage(m), conversationMessages holds
\* exactly one entry with the id of m and that entry is m, whatever the list
\* held before, a full list of 200 included.
C34_UpsertedMessagePresent ==
    \A message \in ConversationInputs :
        LET after == upsertConversationMessage(researchAgentStatus, message)
                         .conversationMessages
            hits == { i \in 1..Len(after) : after[i].id = message.id }
        IN  /\ Cardinality(hits) = 1
            /\ \A i \in hits : after[i] = message

\* C35: once the active step is s while a batch is set and the user has not
\* navigated by hand, the route becomes STEP_ROUTES[s], unless the step moves
\* on or the user navigates first.
C35_RouteFollowsActiveStep ==
    \A s \in 2..5 :
        (workflow.batchId # Null /\ page.currentActiveStep = s /\ ~page.userNavigated)
            ~> \/ page.pathname = STEP_ROUTES[s]
               \/ page.currentActiveStep # s
               \/ page.userNavigated

\* the runs of checkAndStartWorkflow that have started and not returned
RunsInFlight == { r \in 1..MaxRuns : page.runs[r].pc \notin {"idle", "done"} }

\* C36: at most one run of checkAndStartWorkflow is in flight at any time,
\* and so at most one call of startWorkflow.
C36_OneCheckInFlight ==
    /\ Cardinality(RunsInFlight) <= 1
    /\ Cardinality({ r \in 1..MaxRuns : page.runs[r].pc = "startWorkflow" }) <= 1

\* C37: a run calls startWorkflow only after getFinalReport gave no ready
\* report and the status the backend reported is neither running nor
\* cancelled.
C37_StartOnlyWhenNotRunning ==
    \A r \in 1..MaxRuns :
        page.runs[r].startCalled
        => /\ page.runs[r].report # "ready"
           /\ page.runs[r].status \notin {"running", "cancelled"}

\* C38: once a run has found the report of its batch ready, the store comes
\* to hold finalReport.status = 'ready', workflowStarted = true and
\* currentPhase = 'complete', and the run never calls startWorkflow.
C38_ReadyReportCompletes ==
    \A r \in 1..MaxRuns :
        (page.runs[r].report = "ready")
            ~> /\ ~page.runs[r].startCalled
               /\ ~workflow.finalReport.isNull
               /\ workflow.finalReport.status = "ready"
               /\ workflow.workflowStarted
               /\ workflow.currentPhase = "complete"

\* a persisted session with a completed scraping item, goals, a plan and one
\* Phase3Step for each step of the plan
ConsistentSessions ==
    { sessionData \in SessionDetails :
        /\ ~sessionData.scraping_status.isNull
        /\ sessionData.scraping_status.completed >= 1
        /\ NonEmpty(sessionData.phase1_confirmed_goals)
        /\ NonEmpty(sessionData.research_plan)
        /\ ~sessionData.phase3.isNull
        /\ Len(sessionData.phase3.steps) = Len(sessionData.research_plan.items) }

\* C39: after handleView or handleResume has hydrated such a session,
\* validateState finds no violation.
C39_HydratedSnapshotValid ==
    \A batchId \in BatchIds, sessionData \in ConsistentSessions :
        /\ validateState(handleView(Store, batchId, sessionData)) = {}
        /\ \A resumed \in BOOLEAN :
             validateState(handleResume(Store, batchId, sessionData, resumed)) = {}

\* C40: the displayed overall progress is a number from 0 to 100, and it is 0
\* when neither expectedTotal nor the fallback total is positive.
C40_ProgressWithinBounds ==
    /\ overallProgress(scrapingStatus) \in 0..100
    /\ (scrapingStatus.expectedTotal <= 0 /\ scrapingStatus.total <= 0)
         => overallProgress(scrapingStatus) = 0

====
